---- MODULE Spec2Model ----
(***************************************************************************)
(* Text-chunking and reading-correction pipeline of the audio-novel        *)
(* scripts (publish_novel.py, detect_reading_errors.py,                    *)
(* fix_corrections_from_report.py, generate_corrections*.py).              *)
(*                                                                         *)
(* A Python str is modelled as a sequence of one-character tokens.  The    *)
(* tokens name the character classes the code distinguishes:               *)
(*   "a"                 an ordinary non-blank character                   *)
(*   "ku" "ex" "qu"      the terminal marks 。 ！ ？                         *)
(*   LF CR SP            line feed, carriage return, blank                 *)
(*   "K" "J"             ideographs inside the range 一-龥                  *)
(*   "h" "t" "cho"       a hiragana, a katakana, the long-vowel mark ー     *)
(*   "x"                 a character of no class above (Latin letter)      *)
(***************************************************************************)
EXTENDS Integers, Sequences, FiniteSets, TLC

VARIABLES
    text,          \* chunker: the text handed to split_text_into_chunks
    max_size,      \* chunker: the size limit
    normalized,    \* chunker: TRUE once the preprocessing has run on text
    chunks,        \* chunker: the list split_text_into_chunks returned
    cpc,           \* chunker: "input" before the split, "done" after
    dtext,         \* dictionary: the text as read, before any replacement
    corrections,   \* dictionary: the corrections dict, in insertion order
    dprev,         \* dictionary: the text before the latest apply_replacements
    dout,          \* dictionary: the text after the latest apply_replacements
    dtimes,        \* dictionary: how often apply_replacements has run
    source_text,   \* synthesis: the novel text of the document
    text_given,    \* synthesis: sync_from_report got a readable --text file
    yaml_corr,     \* synthesis: the "corrections" mapping of the YAML on disk
    new_data,      \* synthesis: the mapping the text-analysis service returned
    validated,     \* synthesis: the proposals the run kept
    rejected,      \* synthesis: the (word, reading, reason) records of the run
    gate_used,     \* synthesis: which check the run put the proposals through
    gpc,           \* synthesis: "start", then what the run did
    original,      \* detector: the original chunk handed to find_differences
    transcribed,   \* detector: the transcription of the chunk
    differences,   \* detector: the list find_differences returned
    fpc,           \* detector: "input" before the comparison, "done" after
    prog,              \* tasks: which program runs, "generate_mp3" or "detect"
    total_chunks,      \* tasks: len(chunks)
    tts_future,        \* tasks: per chunk index, the state of its synthesis task
    tts_completed,     \* tasks: the indices in the order as_completed yields them
    tts_seen,          \* tasks: how many of them the collecting loop has taken
    audio_files_map,   \* tasks: chunk index -> audio file, for the chunks collected
    whisper_future,    \* tasks: per index, the state of its transcription task
    whisper_completed, \* tasks: the indices in the order as_completed yields them
    whisper_seen,      \* tasks: how many of them the collecting loop has taken
    transcribed_map,   \* tasks: chunk index -> transcript
    transcribed_texts, \* tasks: the transcripts by chunk index, "" where missing
    output_mp3,        \* tasks: the audio files joined into the final MP3, or None
    all_differences,   \* tasks: the records of the report
    rpc,               \* tasks: where the run is
    temp_files,        \* tasks: the chunk indices whose mkstemp file of generate_chunk is on disk
    yaml_before,        \* publish: the YAML's corrections as sync_from_report read them
    config_loaded,      \* publish: reading_corrections of config.yaml as loaded
    config_corrections, \* publish: config['reading_corrections']
    ppc,                \* publish: "idle", then "dictionary_ready"
    next_corr,          \* publish: the corrections of the next document's YAML
    raw_text,           \* chunker: the characters of the input file as stored
    test_mode,     \* pipeline: process_novel's test_mode argument
    yaml_exists,   \* pipeline: the document's YAML file is on disk
    report_file,   \* pipeline: who wrote BASE_DIR/reading_errors_report.txt, if anyone
    mp3_exists,    \* pipeline: an MP3 matching the document's name is in MP3_DIR
    steps_run,     \* pipeline: the steps process_novel has entered
    step_ok,       \* pipeline: step -> what run_script returned in it
    final_mp3,     \* pipeline: what find_latest_mp3 returned in STEP 5
    consumed,      \* pipeline: the report STEP 4 handed to the fixing script
    invoked,       \* pipeline: the command lines run_script was given
    lpc,           \* pipeline: the step process_novel is at, or what it returned
    report_content,  \* report: the lines of reading_errors_report.txt
    parsed,          \* report: the list parse_report returned
    meaningful,      \* report: the list filter_meaningful_differences returned
    qpc,             \* report: "report", "parsed", then "filtered" or "KeyError"
    ctx_text,   \* context: the source text given to find_context_in_text
    ctx_sentence,        \* context: the sentence looked for
    context,         \* context: what find_context_in_text returned
    kpc              \* context: "input" before the call, "done" after

cvars == <<text, max_size, normalized, chunks, cpc>>
dvars == <<dtext, corrections, dprev, dout, dtimes>>
gvars == <<source_text, text_given, yaml_corr, new_data, validated, rejected,
           gate_used, gpc>>
fvars == <<original, transcribed, differences, fpc>>
\* the components added to the pipeline after the dictionary tools
tvars == <<prog, total_chunks, tts_future, tts_completed, tts_seen, audio_files_map,
           whisper_future, whisper_completed, whisper_seen, transcribed_map,
           transcribed_texts, output_mp3, all_differences, rpc, temp_files>>
pvars == <<yaml_before, config_loaded, config_corrections, ppc, next_corr>>
lvars == <<test_mode, yaml_exists, report_file, mp3_exists, steps_run, step_ok,
           final_mp3, consumed, invoked, lpc>>
rvars == <<report_content, parsed, meaningful, qpc>>
kvars == <<ctx_text, ctx_sentence, context, kpc>>
yvars == <<lvars, rvars, kvars>>
xvars == <<fvars, tvars, pvars, raw_text, yvars>>
vars == <<cvars, dvars, gvars, xvars>>

\* the state of a component that takes no part in a specification
ChunkIdle ==
    /\ text = <<>>
    /\ max_size = 1
    /\ normalized = FALSE
    /\ chunks = <<>>
    /\ cpc = "idle"

DictIdle ==
    /\ dtext = <<>>
    /\ corrections = <<>>
    /\ dprev = <<>>
    /\ dout = <<>>
    /\ dtimes = 0

DiffIdle ==
    /\ original = <<>>
    /\ transcribed = <<>>
    /\ differences = <<>>
    /\ fpc = "idle"

\* Python's None
None == <<"#none">>

TasksIdle ==
    /\ prog = "idle"
    /\ total_chunks = 0
    /\ tts_future = <<>>
    /\ tts_completed = <<>>
    /\ tts_seen = 0
    /\ audio_files_map = <<>>
    /\ whisper_future = <<>>
    /\ whisper_completed = <<>>
    /\ whisper_seen = 0
    /\ transcribed_map = <<>>
    /\ transcribed_texts = <<>>
    /\ output_mp3 = None
    /\ all_differences = <<>>
    /\ rpc = "idle"
    /\ temp_files = {}

PublishIdle ==
    /\ yaml_before = <<>>
    /\ config_loaded = <<>>
    /\ config_corrections = <<>>
    /\ ppc = "idle"
    /\ next_corr = <<>>

PipelineIdle ==
    /\ test_mode = FALSE
    /\ yaml_exists = FALSE
    /\ report_file = "absent"
    /\ mp3_exists = FALSE
    /\ steps_run = {}
    /\ step_ok = <<>>
    /\ final_mp3 = None
    /\ consumed = "nothing"
    /\ invoked = {}
    /\ lpc = "idle"

ReportIdle ==
    /\ report_content = <<>>
    /\ parsed = <<>>
    /\ meaningful = <<>>
    /\ qpc = "idle"

ContextIdle ==
    /\ ctx_text = <<>>
    /\ ctx_sentence = <<>>
    /\ context = <<>>
    /\ kpc = "idle"

YIdle == PipelineIdle /\ ReportIdle /\ ContextIdle

XIdle == DiffIdle /\ TasksIdle /\ PublishIdle /\ raw_text = <<>> /\ YIdle

GateIdle ==
    /\ source_text = <<>>
    /\ text_given = FALSE
    /\ yaml_corr = <<>>
    /\ new_data = <<>>
    /\ validated = <<>>
    /\ rejected = <<>>
    /\ gate_used = "none"
    /\ gpc = "idle"

LF == "LF"
CR == "CR"
SP == "SP"

-----------------------------------------------------------------------------
(* Bounds of the chunker's inputs.                                         *)
MaxCoreLen == 8
MaxWideLen == 5
MaxSize == 4

\* every string over alphabet A of length at most n
StringsUpTo(A, n) == UNION {[1..k -> A] : k \in 0..n}

CoreAlphabet == {"a", "ku", LF}
WideAlphabet == {"a", "ku", "ex", LF, SP}
ChunkTexts == StringsUpTo(CoreAlphabet, MaxCoreLen) \cup StringsUpTo(WideAlphabet, MaxWideLen)

-----------------------------------------------------------------------------
(* Python string primitives.                                               *)

\* str.isspace() of one character, as str.strip() uses it
IsSpace(c) == c \in {LF, CR, SP}

RECURSIVE LStrip(_)
LStrip(s) == IF s # <<>> /\ IsSpace(Head(s)) THEN LStrip(Tail(s)) ELSE s

RECURSIVE RStrip(_)
RStrip(s) ==
    IF s # <<>> /\ IsSpace(s[Len(s)]) THEN RStrip(SubSeq(s, 1, Len(s) - 1)) ELSE s

\* str.strip()
Strip(s) == LStrip(RStrip(s))

\* w occurs in s starting at position i
StartsAt(s, i, w) ==
    /\ i + Len(w) - 1 <= Len(s)
    /\ SubSeq(s, i, i + Len(w) - 1) = w

\* w in s
Contains(s, w) == \E i \in 1..(Len(s) + 1) : StartsAt(s, i, w)

\* s.split(sep) for a non-empty separator: leftmost, non-overlapping
RECURSIVE SplitFrom(_, _, _, _, _)
SplitFrom(s, sep, i, cur, acc) ==
    IF i > Len(s) THEN Append(acc, cur)
    ELSE IF StartsAt(s, i, sep)
         THEN SplitFrom(s, sep, i + Len(sep), <<>>, Append(acc, cur))
         ELSE SplitFrom(s, sep, i + 1, Append(cur, s[i]), acc)

StrSplit(s, sep) == SplitFrom(s, sep, 1, <<>>, <<>>)

\* sep.join(parts)
RECURSIVE StrJoin(_, _)
StrJoin(parts, sep) ==
    IF parts = <<>> THEN <<>>
    ELSE IF Len(parts) = 1 THEN parts[1]
    ELSE parts[1] \o sep \o StrJoin(Tail(parts), sep)

\* "".join(parts)
RECURSIVE Flatten(_)
Flatten(cs) == IF cs = <<>> THEN <<>> ELSE Head(cs) \o Flatten(Tail(cs))

\* [p.strip() for p in ps if p.strip()]
RECURSIVE StrippedNonEmpty(_)
StrippedNonEmpty(ps) ==
    IF ps = <<>> THEN <<>>
    ELSE LET p == Strip(Head(ps))
         IN  IF p # <<>> THEN <<p>> \o StrippedNonEmpty(Tail(ps))
             ELSE StrippedNonEmpty(Tail(ps))

-----------------------------------------------------------------------------
(* Preprocessing before chunking.                                          *)

\* re.sub(r'\r\n', '\n', s)
RECURSIVE CrLfToLf(_)
CrLfToLf(s) ==
    IF s = <<>> THEN <<>>
    ELSE IF StartsAt(s, 1, <<CR, LF>>) THEN <<LF>> \o CrLfToLf(SubSeq(s, 3, Len(s)))
    ELSE <<Head(s)>> \o CrLfToLf(Tail(s))

\* number of consecutive LF at the head of s
RECURSIVE LfRun(_)
LfRun(s) == IF s # <<>> /\ Head(s) = LF THEN 1 + LfRun(Tail(s)) ELSE 0

\* s.replace('\n\n\n', '\n\n'): three LF at a time, from left to right
RECURSIVE CollapseBlankLines_ThreeAtATime(_)
CollapseBlankLines_ThreeAtATime(s) ==
    IF s = <<>> THEN <<>>
    ELSE IF StartsAt(s, 1, <<LF, LF, LF>>)
         THEN <<LF, LF>> \o CollapseBlankLines_ThreeAtATime(SubSeq(s, 4, Len(s)))
         ELSE <<Head(s)>> \o CollapseBlankLines_ThreeAtATime(Tail(s))

\* re.sub(r'\n{3,}', '\n\n', s): each maximal run of 3 or more LF becomes 2
RECURSIVE CollapseBlankLines(_)
CollapseBlankLines(s) ==
    IF s = <<>> THEN <<>>
    ELSE LET n == LfRun(s)
         IN  IF n >= 3 THEN <<LF, LF>> \o CollapseBlankLines(SubSeq(s, n + 1, Len(s)))
             ELSE IF n >= 1 THEN SubSeq(s, 1, n) \o CollapseBlankLines(SubSeq(s, n + 1, Len(s)))
             ELSE <<Head(s)>> \o CollapseBlankLines(Tail(s))

\* novel_text.strip(); \r\n -> \n; \n{3,} -> \n\n
Normalize(s) == CollapseBlankLines(CrLfToLf(Strip(s)))

-----------------------------------------------------------------------------
(* split_text_into_chunks                                                  *)

\* the character class [。！？] of the sentence regex
Terminals == {"ku", "ex", "qu"}

\* re.split(r'([。！？])', p) read two items at a time: every sentence but the
\* last ends with its terminal mark; the last is what follows the final mark
\* (the empty string when p ends with a mark)
RECURSIVE SentencesFrom(_, _, _, _)
SentencesFrom(p, i, cur, acc) ==
    IF i > Len(p) THEN Append(acc, cur)
    ELSE IF p[i] \in Terminals
         THEN SentencesFrom(p, i + 1, <<>>, Append(acc, Append(cur, p[i])))
         ELSE SentencesFrom(p, i + 1, Append(cur, p[i]), acc)

\* a mis-paired read of the split list: each terminal mark is attached to the
\* text that follows it instead of the text before it
RECURSIVE SentencesMarkLeads(_, _, _, _)
SentencesMarkLeads(p, i, cur, acc) ==
    IF i > Len(p) THEN Append(acc, cur)
    ELSE IF p[i] \in Terminals
         THEN SentencesMarkLeads(p, i + 1, <<p[i]>>, Append(acc, cur))
         ELSE SentencesMarkLeads(p, i + 1, Append(cur, p[i]), acc)

Sentences_MarkLeads(p) == SentencesMarkLeads(p, 1, <<>>, <<>>)

Sentences(p) == SentencesFrom(p, 1, <<>>, <<>>)

\* the inner loop testing len(sentence) alone against max_size instead of
\* len(temp_chunk) + len(sentence)
RECURSIVE SentenceLoop_SentenceOnly(_, _, _)
SentenceLoop_SentenceOnly(ss, size, st) ==
    IF ss = <<>> THEN st
    ELSE LET sentence == Head(ss)
         IN  IF Len(sentence) <= size
             THEN SentenceLoop_SentenceOnly(Tail(ss), size,
                               [st EXCEPT !.temp_chunk = st.temp_chunk \o sentence])
             ELSE SentenceLoop_SentenceOnly(Tail(ss), size,
                               [chunks |-> IF st.temp_chunk # <<>>
                                           THEN Append(st.chunks, Strip(st.temp_chunk))
                                           ELSE st.chunks,
                                temp_chunk |-> sentence])

\* the inner loop over the sentences of an oversized paragraph;
\* st = [chunks, temp_chunk]
RECURSIVE SentenceLoop(_, _, _)
SentenceLoop(ss, size, st) ==
    IF ss = <<>> THEN st
    ELSE LET sentence == Head(ss)
         IN  IF Len(st.temp_chunk) + Len(sentence) <= size
             THEN SentenceLoop(Tail(ss), size,
                               [st EXCEPT !.temp_chunk = st.temp_chunk \o sentence])
             ELSE SentenceLoop(Tail(ss), size,
                               [chunks |-> IF st.temp_chunk # <<>>
                                           THEN Append(st.chunks, Strip(st.temp_chunk))
                                           ELSE st.chunks,
                                temp_chunk |-> sentence])

\* the oversized branch without its last two lines (if temp_chunk:
\* current_chunk = temp_chunk): the trailing sentence group is dropped
OversizedParagraph_DropsRest(paragraph, size, st) ==
    LET flushed == IF st.current_chunk # <<>>
                   THEN Append(st.chunks, Strip(st.current_chunk))
                   ELSE st.chunks
        inner == SentenceLoop(Sentences(paragraph), size,
                              [chunks |-> flushed, temp_chunk |-> <<>>])
    IN  [chunks |-> inner.chunks, current_chunk |-> <<>>]

\* the branch len(paragraph) > max_size; st = [chunks, current_chunk]
OversizedParagraph(paragraph, size, st) ==
    LET flushed == IF st.current_chunk # <<>>
                   THEN Append(st.chunks, Strip(st.current_chunk))
                   ELSE st.chunks
        inner == SentenceLoop(Sentences(paragraph), size,
                              [chunks |-> flushed, temp_chunk |-> <<>>])
    IN  [chunks |-> inner.chunks,
         current_chunk |-> IF inner.temp_chunk # <<>> THEN inner.temp_chunk ELSE <<>>]

\* the else branch testing len(current_chunk) + len(paragraph) without the
\* delimiter that joins them
FittingParagraph_DelimiterNotCounted(paragraph, size, st) ==
    IF Len(st.current_chunk) + Len(paragraph) <= size
    THEN [st EXCEPT !.current_chunk =
              IF st.current_chunk # <<>>
              THEN st.current_chunk \o <<LF, LF>> \o paragraph
              ELSE paragraph]
    ELSE [chunks |-> IF st.current_chunk # <<>>
                     THEN Append(st.chunks, Strip(st.current_chunk))
                     ELSE st.chunks,
          current_chunk |-> paragraph]

\* the else branch joining paragraphs with a single line feed
FittingParagraph_SingleBreak(paragraph, size, st) ==
    LET test_chunk == IF st.current_chunk # <<>>
                      THEN st.current_chunk \o <<LF>> \o paragraph
                      ELSE paragraph
    IN  IF Len(test_chunk) <= size
        THEN [st EXCEPT !.current_chunk = test_chunk]
        ELSE [chunks |-> IF st.current_chunk # <<>>
                         THEN Append(st.chunks, Strip(st.current_chunk))
                         ELSE st.chunks,
              current_chunk |-> paragraph]

\* the else branch: the paragraph joins the current chunk or starts a new one
FittingParagraph(paragraph, size, st) ==
    LET test_chunk == IF st.current_chunk # <<>>
                      THEN st.current_chunk \o <<LF, LF>> \o paragraph
                      ELSE paragraph
    IN  IF Len(test_chunk) <= size
        THEN [st EXCEPT !.current_chunk = test_chunk]
        ELSE [chunks |-> IF st.current_chunk # <<>>
                         THEN Append(st.chunks, Strip(st.current_chunk))
                         ELSE st.chunks,
              current_chunk |-> paragraph]

\* the outer loop over the paragraphs
RECURSIVE ParagraphLoop(_, _, _)
ParagraphLoop(ps, size, st) ==
    IF ps = <<>> THEN st
    ELSE ParagraphLoop(Tail(ps), size,
                       IF Len(Head(ps)) > size
                       THEN OversizedParagraph(Head(ps), size, st)
                       ELSE FittingParagraph(Head(ps), size, st))

Paragraphs(s) == StrippedNonEmpty(StrSplit(s, <<LF, LF>>))

split_text_into_chunks(s, size) ==
    LET st == ParagraphLoop(Paragraphs(s), size,
                            [chunks |-> <<>>, current_chunk |-> <<>>])
    IN  IF st.current_chunk # <<>>
        THEN Append(st.chunks, Strip(st.current_chunk))
        ELSE st.chunks

-----------------------------------------------------------------------------
(* The corrections dictionary.  A Python dict is a sequence of             *)
(* <<key, value>> pairs with distinct keys, in insertion order.            *)

MaxDictTextLen == 3
MaxKeyLen == 2
MaxReadingLen == 1
MaxEntries == 2
MaxApply == 2

DictAlphabet == {"K", "J", "h"}
DictTexts == StringsUpTo(DictAlphabet, MaxDictTextLen)
\* a key (surfaceForm) is a non-empty string
DictKeys == StringsUpTo(DictAlphabet, MaxKeyLen) \ {<<>>}
\* a reading is a non-empty string: the tools that write dictionaries drop
\* entries whose key or value is empty
DictReadings == StringsUpTo(DictAlphabet, MaxReadingLen) \ {<<>>}

HasDistinctKeys(d) == \A i, j \in 1..Len(d) : d[i][1] = d[j][1] => i = j

Dicts ==
    {d \in UNION {[1..n -> DictKeys \X DictReadings] : n \in 0..MaxEntries} :
        HasDistinctKeys(d)}

\* s.replace(w, r, 1): only the first occurrence of w becomes r
RECURSIVE StrReplace_FirstOnly(_, _, _)
StrReplace_FirstOnly(s, w, r) ==
    IF w = <<>> THEN r \o s
    ELSE IF s = <<>> THEN <<>>
    ELSE IF StartsAt(s, 1, w) THEN r \o SubSeq(s, Len(w) + 1, Len(s))
    ELSE <<Head(s)>> \o StrReplace_FirstOnly(Tail(s), w, r)

\* s.replace(w, r): every leftmost non-overlapping occurrence of w becomes r
RECURSIVE StrReplace(_, _, _)
StrReplace(s, w, r) ==
    IF w = <<>> THEN r \o Flatten([i \in 1..Len(s) |-> <<s[i]>> \o r])
    ELSE IF s = <<>> THEN <<>>
    ELSE IF StartsAt(s, 1, w) THEN r \o StrReplace(SubSeq(s, Len(w) + 1, Len(s)), w, r)
    ELSE <<Head(s)>> \o StrReplace(Tail(s), w, r)

\* where a stable sort by descending key length puts item e among the
\* already sorted items: behind every item whose key is at least as long
RECURSIVE InsertByLen(_, _)
InsertByLen(e, sorted) ==
    IF sorted = <<>> THEN <<e>>
    ELSE IF Len(Head(sorted)[1]) >= Len(e[1])
         THEN <<Head(sorted)>> \o InsertByLen(e, Tail(sorted))
         ELSE <<e>> \o sorted

\* sorted(corrections.items(), key=lambda x: len(x[0]), reverse=True);
\* the sort is stable, so keys of equal length stay in insertion order
RECURSIVE SortFrom(_, _)
SortFrom(items, acc) ==
    IF items = <<>> THEN acc ELSE SortFrom(Tail(items), InsertByLen(Head(items), acc))

\* the loop running over corrections.items() as inserted, without the sort
SortedByLenDesc_Unsorted(items) == items

SortedByLenDesc(items) == SortFrom(items, <<>>)

\* for word, reading in sorted_dict: text = text.replace(word, reading)
RECURSIVE ReplaceAll(_, _)
ReplaceAll(s, items) ==
    IF items = <<>> THEN s
    ELSE ReplaceAll(StrReplace(s, Head(items)[1], Head(items)[2]), Tail(items))

apply_replacements(s, d) == ReplaceAll(s, SortedByLenDesc(d))

DictInit ==
    /\ ChunkIdle
    /\ GateIdle
    /\ XIdle
    /\ dtext \in DictTexts
    /\ corrections \in Dicts
    /\ dprev = dtext
    /\ dout = dtext
    /\ dtimes = 0

\* novel_text = apply_replacements(novel_text, corrections)
Apply ==
    /\ dtimes < MaxApply
    /\ dprev' = dout
    /\ dout' = apply_replacements(dout, corrections)
    /\ dtimes' = dtimes + 1
    /\ UNCHANGED <<dtext, corrections>>
    /\ UNCHANGED <<cvars, gvars, xvars>>

DictNext == Apply

SpecDict == DictInit /\ [][DictNext]_vars

-----------------------------------------------------------------------------
(* Dictionary synthesis: the validation gate and the tools that write the  *)
(* per-document YAML.                                                      *)

MaxWordLen == 2
MaxGateReadingLen == 1
MaxSourceLen == 3
MaxProposals == 1
MaxExisting == 2

\* len(word) > 8 and len(word) > 15 of validate_corrections
LongKeyLen == 8
SentenceKeyLen == 15

\* a value of the service's JSON that is not a string (a number, null, a list)
NonStr == <<"#nonstr">>
IsStr(v) == v # NonStr

\* character classes of the regular expressions
IsKanji(c) == c \in {"K", "J"}                      \* [一-龥], [一-龥]
IsHiragana(c) == c = "h"                            \* ぁ-ん, [぀-ゟ]
IsKatakana(c) == c = "t"                            \* ァ-ヶ
IsChoon(c) == c = "cho"                             \* ー
AllChars ==
    {"a", "x", "K", "J", "h", "t", "cho", "ten", "ku", "ex", "qu", "nakaguro", LF, CR, SP}
HiraganaClass == {c \in AllChars : IsHiragana(c)}   \* [぀-ゟ]
KanaKeyClass ==                                     \* [ぁ-んァ-ヶー]
    {c \in AllChars : IsHiragana(c) \/ IsKatakana(c) \/ IsChoon(c)}
HiraganaSentenceClass ==                            \* [ぁ-んー、。！？\s]
    {c \in AllChars : IsHiragana(c) \/ IsChoon(c) \/ c \in {"ten", "ku", "ex", "qu"} \/ IsSpace(c)}
KatakanaBlockClass ==                               \* [゠-ヿー・]
    {c \in AllChars : IsKatakana(c) \/ IsChoon(c) \/ c = "nakaguro"}

\* re.match(r'^[class]+$', s): one or more characters of the class up to the
\* end of s, or up to a final line feed
MatchesWhole(s, class) ==
    /\ s # <<>>
    /\ \/ \A i \in 1..Len(s) : s[i] \in class
       \/ /\ Len(s) >= 2
          /\ s[Len(s)] = LF
          /\ \A i \in 1..(Len(s) - 1) : s[i] \in class

\* re.search(r'[一-龥]', s)
HasKanji(s) == \E i \in 1..Len(s) : IsKanji(s[i])

\* len(re.findall(r'[一-龥]', s))
KanjiCount(s) == Cardinality({i \in 1..Len(s) : IsKanji(s[i])})

\* key in d, d[key] for a dict d
DictHas(d, key) == \E i \in 1..Len(d) : d[i][1] = key
DictGet(d, key) == d[CHOOSE i \in 1..Len(d) : d[i][1] = key][2]

\* an assignment that leaves an existing key alone (dict.setdefault)
DictSet_KeepExisting(d, key, value) ==
    IF DictHas(d, key) THEN d ELSE Append(d, <<key, value>>)

\* d[key] = value: an existing key keeps its place, a new one goes last
DictSet(d, key, value) ==
    IF DictHas(d, key)
    THEN [i \in 1..Len(d) |-> IF d[i][1] = key THEN <<key, value>> ELSE d[i]]
    ELSE Append(d, <<key, value>>)

\* d.update(e)
RECURSIVE DictUpdate(_, _)
DictUpdate(d, e) ==
    IF e = <<>> THEN d
    ELSE DictUpdate(DictSet(d, Head(e)[1], Head(e)[2]), Tail(e))

\* the loop body without the rule len(word) == 1
GateVerdict_NoOneCharRule(word, reading, original_text, existing_corrections) ==
    IF ~IsStr(reading) \/ ~IsStr(word) THEN "type"
    ELSE IF Strip(word) = <<>> \/ Strip(reading) = <<>> THEN "empty"
    ELSE IF ~Contains(original_text, word) THEN "not_in_text"
    ELSE IF /\ DictHas(existing_corrections, word)
            /\ DictGet(existing_corrections, word) = reading THEN "same"
    ELSE IF MatchesWhole(word, KanaKeyClass) THEN "kana_only"
    ELSE IF HasKanji(reading) THEN "reading_has_kanji"
    ELSE IF ~HasKanji(word) THEN "key_without_kanji"
    ELSE IF Len(word) > LongKeyLen /\ KanjiCount(word) * 10 < Len(word) * 2
         THEN "low_kanji_ratio"
    ELSE IF Len(word) > SentenceKeyLen /\ MatchesWhole(reading, HiraganaSentenceClass)
         THEN "whole_sentence"
    ELSE "ok"

\* the loop body without the check "word not in original_text"
GateVerdict_NoTextCheck(word, reading, original_text, existing_corrections) ==
    IF ~IsStr(reading) \/ ~IsStr(word) THEN "type"
    ELSE IF Strip(word) = <<>> \/ Strip(reading) = <<>> THEN "empty"
    ELSE IF Len(word) = 1 THEN "one_char"
    ELSE IF /\ DictHas(existing_corrections, word)
            /\ DictGet(existing_corrections, word) = reading THEN "same"
    ELSE IF MatchesWhole(word, KanaKeyClass) THEN "kana_only"
    ELSE IF HasKanji(reading) THEN "reading_has_kanji"
    ELSE IF ~HasKanji(word) THEN "key_without_kanji"
    ELSE IF Len(word) > LongKeyLen /\ KanjiCount(word) * 10 < Len(word) * 2
         THEN "low_kanji_ratio"
    ELSE IF Len(word) > SentenceKeyLen /\ MatchesWhole(reading, HiraganaSentenceClass)
         THEN "whole_sentence"
    ELSE "ok"

\* the loop body without the skip of an entry already registered
GateVerdict_NoSameSkip(word, reading, original_text, existing_corrections) ==
    IF ~IsStr(reading) \/ ~IsStr(word) THEN "type"
    ELSE IF Strip(word) = <<>> \/ Strip(reading) = <<>> THEN "empty"
    ELSE IF ~Contains(original_text, word) THEN "not_in_text"
    ELSE IF Len(word) = 1 THEN "one_char"
    ELSE IF MatchesWhole(word, KanaKeyClass) THEN "kana_only"
    ELSE IF HasKanji(reading) THEN "reading_has_kanji"
    ELSE IF ~HasKanji(word) THEN "key_without_kanji"
    ELSE IF Len(word) > LongKeyLen /\ KanjiCount(word) * 10 < Len(word) * 2
         THEN "low_kanji_ratio"
    ELSE IF Len(word) > SentenceKeyLen /\ MatchesWhole(reading, HiraganaSentenceClass)
         THEN "whole_sentence"
    ELSE "ok"

\* what the body of the loop of validate_corrections does with one proposal:
\* the reason it is rejected with, "same" when it is skipped silently as
\* already registered, "ok" when it is accepted
GateVerdict(word, reading, original_text, existing_corrections) ==
    IF ~IsStr(reading) \/ ~IsStr(word) THEN "type"                      \* 型が不正
    ELSE IF Strip(word) = <<>> \/ Strip(reading) = <<>> THEN "empty"     \* 空文字
    ELSE IF ~Contains(original_text, word) THEN "not_in_text"            \* 原文に存在しない
    ELSE IF Len(word) = 1 THEN "one_char"                                \* 1文字は部分一致リスク
    ELSE IF /\ DictHas(existing_corrections, word)
            /\ DictGet(existing_corrections, word) = reading THEN "same"
    ELSE IF MatchesWhole(word, KanaKeyClass) THEN "kana_only"            \* かな文字のみ
    ELSE IF HasKanji(reading) THEN "reading_has_kanji"                   \* 読みに漢字が含まれる
    ELSE IF ~HasKanji(word) THEN "key_without_kanji"                     \* キーに漢字なし
    ELSE IF Len(word) > LongKeyLen /\ KanjiCount(word) * 10 < Len(word) * 2
         THEN "low_kanji_ratio"                                          \* 漢字率が低い
    ELSE IF Len(word) > SentenceKeyLen /\ MatchesWhole(reading, HiraganaSentenceClass)
         THEN "whole_sentence"                                           \* 文まるごとひらがな化は禁止
    ELSE "ok"

\* the loop of validate_corrections; st = [validated, rejected]
RECURSIVE ValidateLoop(_, _, _, _)
ValidateLoop(items, original_text, existing_corrections, st) ==
    IF items = <<>> THEN st
    ELSE LET word == Head(items)[1]
             reading == Head(items)[2]
             verdict == GateVerdict(word, reading, original_text, existing_corrections)
         IN  ValidateLoop(Tail(items), original_text, existing_corrections,
                 IF verdict = "ok"
                 THEN [st EXCEPT !.validated = DictSet(st.validated, word, reading)]
                 ELSE IF verdict = "same" THEN st
                 ELSE [st EXCEPT !.rejected = Append(st.rejected, <<word, reading, verdict>>)])

validate_corrections(proposals, original_text, existing_corrections) ==
    ValidateLoop(proposals, original_text, existing_corrections,
                 [validated |-> <<>>, rejected |-> <<>>])

\* sync_from_report without an original text: {k: v for k, v in new_data.items()
\* if isinstance(k, str) and isinstance(v, str) and k.strip() and v.strip()}
RECURSIVE SimplifiedValidation(_)
SimplifiedValidation(items) ==
    IF items = <<>> THEN <<>>
    ELSE LET word == Head(items)[1]
             reading == Head(items)[2]
         IN  IF IsStr(word) /\ IsStr(reading) /\ Strip(word) # <<>> /\ Strip(reading) # <<>>
             THEN <<Head(items)>> \o SimplifiedValidation(Tail(items))
             ELSE SimplifiedValidation(Tail(items))

\* the filter of generate_corrections: TRUE when the entry is kept
FilterKeeps(key, val, full_text) ==
    /\ IsStr(key) /\ IsStr(val)
    /\ ~(Len(key) < 2)
    /\ ~MatchesWhole(key, KatakanaBlockClass)
    /\ ~MatchesWhole(key, HiraganaClass)
    /\ HasKanji(key)
    /\ ~HasKanji(val)
    /\ Contains(full_text, key)

RECURSIVE FilterLoop(_, _)
FilterLoop(items, full_text) ==
    IF items = <<>> THEN <<>>
    ELSE IF FilterKeeps(Head(items)[1], Head(items)[2], full_text)
         THEN <<Head(items)>> \o FilterLoop(Tail(items), full_text)
         ELSE FilterLoop(Tail(items), full_text)

\* inputs of the synthesis tools
GateAlphabet == {"K", "h", "x"}
Rep(c, n) == [i \in 1..n |-> c]
LowRatioWord == Rep("h", LongKeyLen) \o <<"K">>
FairRatioWord == Rep("h", LongKeyLen - 1) \o <<"K", "K">>
SentenceWord == Rep("K", SentenceKeyLen + 1)
LongWords == {LowRatioWord, FairRatioWord, SentenceWord}
GateWords == StringsUpTo(GateAlphabet, MaxWordLen) \cup LongWords \cup {<<SP>>}
GateReadings == StringsUpTo(GateAlphabet, MaxGateReadingLen) \cup {NonStr}
GateSources == StringsUpTo(GateAlphabet, MaxSourceLen) \cup LongWords
Proposals ==
    {d \in UNION {[1..n -> GateWords \X GateReadings] : n \in 0..MaxProposals} :
        HasDistinctKeys(d)}
\* the YAML already on disk holds well-formed entries
ExistingKeys == {w \in StringsUpTo(GateAlphabet, MaxWordLen) : Len(w) >= 2 /\ HasKanji(w)}
ExistingReadings == {<<"h">>, <<"h", "h">>}
ExistingDicts ==
    {d \in UNION {[1..n -> ExistingKeys \X ExistingReadings] : n \in 0..MaxExisting} :
        HasDistinctKeys(d)}

GateInit ==
    /\ ChunkIdle
    /\ DictIdle
    /\ XIdle
    /\ source_text \in GateSources
    /\ text_given \in BOOLEAN
    /\ yaml_corr \in ExistingDicts
    /\ new_data = <<>>
    /\ validated = <<>>
    /\ rejected = <<>>
    /\ gate_used = "none"
    /\ gpc = "start"

\* what becomes of a request to the text-analysis service: an answer that
\* parses, no answer (the call raises), an answer json.loads cannot parse
ServiceOutcomes == {"ok", "unavailable", "malformed"}

\* get_text_analysis_from_ai: every exception of the call or of the parse
\* is caught and gives {}
get_text_analysis_from_ai(service, answer) == IF service = "ok" THEN answer ELSE <<>>

\* sync_from_report; usable: the report exists, is not empty and holds a
\* meaningful difference; service, answer: what the service returned.  The
\* call and json.loads stand outside any try: their exception ends the run
SyncFromReport ==
    /\ gpc = "start"
    /\ \E usable \in BOOLEAN, service \in ServiceOutcomes :
        IF ~usable
        THEN /\ gpc' = "sync_no_report"
             /\ UNCHANGED <<new_data, validated, rejected, gate_used, yaml_corr>>
             /\ UNCHANGED yaml_before
        ELSE IF service # "ok"
        THEN /\ gpc' = "sync_raised"
             /\ UNCHANGED <<new_data, validated, rejected, gate_used, yaml_corr>>
             /\ UNCHANGED yaml_before
        ELSE \E answer \in Proposals :
            LET original_text == IF text_given THEN source_text ELSE <<>>
                full == validate_corrections(answer, original_text, yaml_corr)
                kept == IF original_text # <<>> THEN full.validated
                        ELSE SimplifiedValidation(answer)
            IN  IF answer = <<>>
                THEN /\ gpc' = "sync_no_candidates"
                     /\ UNCHANGED <<new_data, validated, rejected, gate_used, yaml_corr>>
                     /\ UNCHANGED yaml_before
                ELSE /\ new_data' = answer
                     /\ yaml_before' = yaml_corr
                     /\ validated' = kept
                     /\ rejected' = IF original_text # <<>> THEN full.rejected ELSE <<>>
                     /\ gate_used' = IF original_text # <<>> THEN "validate_corrections"
                                     ELSE "simplified"
                     /\ IF kept = <<>>
                        THEN gpc' = "sync_nothing_valid" /\ UNCHANGED yaml_corr
                        ELSE gpc' = "sync_written" /\ yaml_corr' = DictUpdate(yaml_corr, kept)
    /\ UNCHANGED <<source_text, text_given>>
    /\ UNCHANGED <<cvars, dvars, fvars, tvars, config_loaded, config_corrections, ppc, next_corr,
                   raw_text, yvars>>

\* generate_corrections: the service's entries are filtered, then the YAML
\* is written anew
GenerateCorrections ==
    /\ gpc = "start"
    /\ \E res \in {get_text_analysis_from_ai(service, answer) :
                      service \in ServiceOutcomes, answer \in Proposals} :
        /\ new_data' = res
        /\ validated' = FilterLoop(res, source_text)
        /\ yaml_corr' = FilterLoop(res, source_text)
    /\ rejected' = <<>>
    /\ gate_used' = "filter"
    /\ gpc' = "generated"
    /\ UNCHANGED <<source_text, text_given>>
    /\ UNCHANGED <<cvars, dvars, xvars>>

\* generate_corrections_v2: the service's entries are written as they come
GenerateCorrectionsV2 ==
    /\ gpc = "start"
    /\ \E res \in {get_text_analysis_from_ai(service, answer) :
                      service \in ServiceOutcomes, answer \in Proposals} :
        /\ new_data' = res
        /\ validated' = res
        /\ yaml_corr' = res
    /\ rejected' = <<>>
    /\ gate_used' = "none"
    /\ gpc' = "generated_v2"
    /\ UNCHANGED <<source_text, text_given>>
    /\ UNCHANGED <<cvars, dvars, xvars>>

\* DEFAULT_CORRECTIONS of publish_novel.py: ideograph words with their readings
DEFAULT_CORRECTIONS ==
    << <<<<"K", "K">>, <<"h", "h", "h">>>>, <<<<"K", "h">>, <<"h", "h", "h">>>> >>

\* what config.yaml may hold under reading_corrections
ConfigDicts ==
    {<<>>,
     << <<<<"K", "K">>, <<"t">>>> >>,
     << <<<<"K", "K">>, <<"t">>>>, <<<<"h", "K">>, <<"t">>>> >>}

\* publish_novel.py on the document whose YAML sync_from_report has updated:
\* process_file puts the document's corrections into the configuration,
\* generate_mp3 builds the dictionary it applies
ProcessFile ==
    /\ gpc = "sync_written"
    /\ ppc = "idle"
    /\ \E config \in ConfigDicts :
        LET extra_corr == yaml_corr
            merged == IF extra_corr # <<>> THEN DictUpdate(config, extra_corr) ELSE config
        IN  /\ config_loaded' = config
            /\ config_corrections' = merged
            /\ corrections' = IF merged # <<>> THEN DictUpdate(DEFAULT_CORRECTIONS, merged)
                               ELSE DEFAULT_CORRECTIONS
    /\ ppc' = "dictionary_ready"
    /\ UNCHANGED <<dtext, dprev, dout, dtimes, yaml_before, next_corr, raw_text, yvars>>
    /\ UNCHANGED <<cvars, gvars, fvars, tvars>>

\* what the YAML of the next document may hold under corrections
NextDocumentDicts ==
    {<<>>, << <<<<"J", "J">>, <<"t">>>> >>}

\* the next turn of main's loop over target_files: process_file gets the same
\* config object, generate_mp3 builds the next document's dictionary from it
ProcessNextFile ==
    /\ ppc = "dictionary_ready"
    /\ \E extra_corr \in NextDocumentDicts :
        LET merged == IF extra_corr # <<>> THEN DictUpdate(config_corrections, extra_corr)
                      ELSE config_corrections
        IN  /\ next_corr' = extra_corr
            /\ config_corrections' = merged
            /\ corrections' = IF merged # <<>> THEN DictUpdate(DEFAULT_CORRECTIONS, merged)
                               ELSE DEFAULT_CORRECTIONS
    /\ ppc' = "next_dictionary_ready"
    /\ UNCHANGED <<dtext, dprev, dout, dtimes, yaml_before, config_loaded, raw_text, yvars>>
    /\ UNCHANGED <<cvars, gvars, fvars, tvars>>

\* len(FALLBACK_MODELS) of _run_gemini_mode
FallbackCount == 4

\* what one model of the Gemini service does with the request: a reply with
\* a JSON array, a reply without one, a reply whose array json.loads cannot
\* parse, a quota error (429), any other error
GeminiReplies == {"errors", "no_json", "malformed", "quota", "error"}

\* for model_name in models_to_try: the first reply that parses ends the loop
\* with success, a quota error passes to the next model, any other exception
\* and the end of the list are sys.exit(1)
RECURSIVE GeminiLoop(_)
GeminiLoop(replies) ==
    IF replies = <<>> THEN "gemini_exit"
    ELSE IF Head(replies) \in {"errors", "no_json"} THEN "gemini_report_written"
    ELSE IF Head(replies) = "quota" THEN GeminiLoop(Tail(replies))
    ELSE "gemini_exit"

\* _run_gemini_mode, with the model given on the command line or with the
\* fallback list
RunGeminiMode ==
    /\ gpc = "start"
    /\ gpc' \in {GeminiLoop(replies) :
                    replies \in [1..1 -> GeminiReplies] \cup [1..FallbackCount -> GeminiReplies]}
    /\ UNCHANGED <<source_text, text_given, yaml_corr, new_data, validated, rejected,
                   gate_used>>
    /\ UNCHANGED <<cvars, dvars, xvars>>

GateNext ==
    \/ SyncFromReport
    \/ GenerateCorrections
    \/ GenerateCorrectionsV2
    \/ ProcessFile
    \/ ProcessNextFile
    \/ RunGeminiMode

SpecGate == GateInit /\ [][GateNext]_vars

-----------------------------------------------------------------------------
(* The chunker as a state machine: a text is read, optionally preprocessed,  *)
(* then split.                                                             *)

\* files that hold carriage returns
MaxRawLen == 5
RawAlphabet == {"a", CR, LF}
RawTexts == ChunkTexts \cup StringsUpTo(RawAlphabet, MaxRawLen)

\* reading without newline translation (open(..., newline=''))
ReadText_Verbatim(s) == s

\* open(input_file, 'r', encoding=encoding).read(): text mode with the default
\* newline=None turns every '\r\n' and every other '\r' into '\n'
ReadText(s) == StrReplace(StrReplace(s, <<CR, LF>>, <<LF>>), <<CR>>, <<LF>>)

ChunkInit ==
    /\ DictIdle
    /\ GateIdle
    /\ DiffIdle
    /\ TasksIdle
    /\ PublishIdle
    /\ YIdle
    /\ raw_text \in RawTexts
    /\ text = <<>>
    /\ max_size \in 1..MaxSize
    /\ normalized = FALSE
    /\ chunks = <<>>
    /\ cpc = "file"

\* novel_text = f.read()
ReadFile ==
    /\ cpc = "file"
    /\ text' = ReadText(raw_text)
    /\ cpc' = "input"
    /\ UNCHANGED <<max_size, normalized, chunks>>
    /\ UNCHANGED <<dvars, gvars, xvars>>

\* the preprocessing of generate_mp3 / main before the split
Preprocess ==
    /\ cpc = "input"
    /\ normalized = FALSE
    /\ text' = Normalize(text)
    /\ normalized' = TRUE
    /\ UNCHANGED <<max_size, chunks, cpc>>
    /\ UNCHANGED <<dvars, gvars, xvars>>

\* chunks = split_text_into_chunks(novel_text, max_chunk_size)
Split ==
    /\ cpc = "input"
    /\ chunks' = split_text_into_chunks(text, max_size)
    /\ cpc' = "done"
    /\ UNCHANGED <<text, max_size, normalized>>
    /\ UNCHANGED <<dvars, gvars, xvars>>

ChunkNext == ReadFile \/ Preprocess \/ Split

SpecChunk == ChunkInit /\ [][ChunkNext]_vars

-----------------------------------------------------------------------------
(* The difference detector: find_differences of detect_reading_errors.py.  *)
(* Further tokens: "b" a second ordinary character, "rbo" "rbc" the ruby    *)
(* brackets, "lq" "rq" the quotation brackets, "ell" the ellipsis          *)
(* character, "dot" the full stop of '......'.                             *)

\* if len(orig) < 5 and if best_ratio < 0.95 of find_differences
MinSentenceLen == 5
ThresholdNum == 95
ThresholdDen == 100

\* re.sub(r'【[^】]*】', '', text): every bracket pair goes with what it holds;
\* an opening bracket that is never closed stays
RECURSIVE strip_ruby(_)
strip_ruby(s) ==
    IF s = <<>> THEN <<>>
    ELSE IF Head(s) = "rbo" /\ \E j \in 2..Len(s) : s[j] = "rbc"
         THEN LET j == CHOOSE j \in 2..Len(s) :
                           s[j] = "rbc" /\ \A k \in 2..(j - 1) : s[k] # "rbc"
              IN  strip_ruby(SubSeq(s, j + 1, Len(s)))
         ELSE <<Head(s)>> \o strip_ruby(Tail(s))

\* text.replace(c, '') for a single character c, and re.sub(r'\s+', '', text)
Without(s, cs) == SelectSeq(s, LAMBDA c : c \notin cs)

normalize_text(s) ==
    LET t1 == strip_ruby(s)
        t2 == SelectSeq(t1, LAMBDA c : ~IsSpace(c))
        t3 == Without(Without(t2, {"ten"}), {"ku"})
        t4 == Without(Without(t3, {"lq"}), {"rq"})
        t5 == Without(Without(t4, {"ex"}), {"qu"})
        t6 == Without(t5, {"ell"})
    IN  StrReplace(t6, <<"dot", "dot", "dot", "dot", "dot", "dot">>, <<>>)

\* the character class [。！？\n] of the sentence split
UnitMarks == {"ku", "ex", "qu", LF}

\* re.split(r'[。！？\n]', s)
RECURSIVE SplitAtMarks(_, _, _)
SplitAtMarks(s, cur, acc) ==
    IF s = <<>> THEN Append(acc, cur)
    ELSE IF Head(s) \in UnitMarks
         THEN SplitAtMarks(Tail(s), <<>>, Append(acc, cur))
         ELSE SplitAtMarks(Tail(s), Append(cur, Head(s)), acc)

\* [s.strip() for s in re.split(...) if s.strip()]
SentenceUnits(s) == StrippedNonEmpty(SplitAtMarks(s, <<>>, <<>>))

\* how far a from position i and b from position j agree
RECURSIVE CommonLen(_, _, _, _)
CommonLen(a, b, i, j) ==
    IF i <= Len(a) /\ j <= Len(b) /\ a[i] = b[j]
    THEN 1 + CommonLen(a, b, i + 1, j + 1)
    ELSE 0

\* SequenceMatcher.find_longest_match without junk (b shorter than 200
\* characters): the longest common block, of those the one starting
\* earliest in a, of those the one starting earliest in b
find_longest_match(a, b) ==
    LET pairs == (1..Len(a)) \X (1..Len(b))
        sizes == {CommonLen(a, b, p[1], p[2]) : p \in pairs}
        size == CHOOSE k \in sizes : \A m \in sizes : m <= k
        starts == {p \in pairs : CommonLen(a, b, p[1], p[2]) = size}
        first == CHOOSE p \in starts :
                     \A q \in starts : p[1] < q[1] \/ (p[1] = q[1] /\ p[2] <= q[2])
    IN  <<first[1], first[2], size>>

\* sum of the sizes of SequenceMatcher.get_matching_blocks(): the longest
\* block, then the same to its left and to its right
RECURSIVE MatchedChars(_, _)
MatchedChars(a, b) ==
    IF a = <<>> \/ b = <<>> THEN 0
    ELSE LET m == find_longest_match(a, b)
         IN  IF m[3] = 0 THEN 0
             ELSE m[3]
                  + MatchedChars(SubSeq(a, 1, m[1] - 1), SubSeq(b, 1, m[2] - 1))
                  + MatchedChars(SubSeq(a, m[1] + m[3], Len(a)),
                                 SubSeq(b, m[2] + m[3], Len(b)))

\* SequenceMatcher(None, a, b).ratio() as the fraction <<numerator, denominator>>:
\* 2.0 * matches / length if length else 1.0
Ratio(a, b) ==
    IF Len(a) + Len(b) = 0 THEN <<1, 1>>
    ELSE <<2 * MatchedChars(a, b), Len(a) + Len(b)>>

\* p < q and p > q for fractions with positive denominators
Less(p, q) == p[1] * q[2] < q[1] * p[2]

\* the inner loop: the transcribed unit with the highest ratio;
\* st = [best_ratio, best_match]
RECURSIVE BestLoop(_, _, _)
BestLoop(orig_norm, trans_sentences, st) ==
    IF trans_sentences = <<>> THEN st
    ELSE LET trans == Head(trans_sentences)
             ratio == Ratio(orig_norm, normalize_text(trans))
         IN  BestLoop(orig_norm, Tail(trans_sentences),
                      IF Less(st.best_ratio, ratio)
                      THEN [best_ratio |-> ratio, best_match |-> trans]
                      ELSE st)

\* the search comparing the raw original unit instead of its normalized form
BestOf_RawOriginal(orig, trans_sentences) ==
    BestLoop(orig, trans_sentences,
             [best_ratio |-> <<0, 1>>, best_match |-> None])

\* the search for one original unit, from best_match = None, best_ratio = 0
BestOf(orig, trans_sentences) ==
    BestLoop(normalize_text(orig), trans_sentences,
             [best_ratio |-> <<0, 1>>, best_match |-> None])

\* the test without "and best_match"
Flagged_RatioOnly(best) == Less(best.best_ratio, <<ThresholdNum, ThresholdDen>>)

\* if best_ratio < 0.95 and best_match: a string is true unless it is empty
Flagged(best) ==
    /\ Less(best.best_ratio, <<ThresholdNum, ThresholdDen>>)
    /\ best.best_match # None /\ best.best_match # <<>>

\* the outer loop over the original units
RECURSIVE DifferenceLoop(_, _, _, _)
DifferenceLoop(orig_sentences, trans_sentences, chunk_num, acc) ==
    IF orig_sentences = <<>> THEN acc
    ELSE LET orig == Head(orig_sentences)
             best == BestOf(orig, trans_sentences)
         IN  DifferenceLoop(Tail(orig_sentences), trans_sentences, chunk_num,
                 IF Len(orig) < MinSentenceLen THEN acc
                 ELSE IF Flagged(best)
                      THEN Append(acc, [chunk |-> chunk_num,
                                        original |-> orig,
                                        transcribed |-> best.best_match,
                                        ratio |-> best.best_ratio])
                      ELSE acc)

find_differences(orig_text, trans_text, chunk_num) ==
    DifferenceLoop(SentenceUnits(orig_text), SentenceUnits(trans_text), chunk_num, <<>>)

\* inputs of the detector
MaxOrigLen == 6
MaxTransLen == 4
MaxNoisyLen == 5

DiffAlphabet == {"a", "b", "ku"}
NoisyAlphabet == {"a", "ten", SP}
\* originals that hold ruby, two units, or units long enough for a ratio
\* between 0.95 and 1
HandOriginals ==
    {<<"a", "a", "rbo", "b", "rbc", "a", "a">>,
     <<"a", "a", "a", "a", "b", "ku", "a", "a", "a", "a", "a">>,
     <<"a", "a", "a", "a", "a", "ku", "b", "b", "b", "b", "b">>,
     Rep("a", 9), Rep("a", 10), Rep("a", 19)}
HandTranscriptions ==
    {<<"a", "a", "a", "a", "a">>, <<"b", "b", "b", "b", "b">>,
     <<"a", "a", "a", "a", "a", "ku", "b", "b", "b", "b", "b">>,
     Rep("a", 9) \o <<"b">>, Rep("a", 10) \o <<"b">>, Rep("a", 19) \o <<"b">>}
Originals ==
    StringsUpTo(DiffAlphabet, MaxOrigLen)
    \cup {o \in StringsUpTo(NoisyAlphabet, MaxNoisyLen) : Len(o) >= MinSentenceLen}
    \cup HandOriginals
Transcriptions == StringsUpTo(DiffAlphabet, MaxTransLen) \cup HandTranscriptions

DiffInit ==
    /\ ChunkIdle
    /\ DictIdle
    /\ GateIdle
    /\ TasksIdle
    /\ PublishIdle
    /\ YIdle
    /\ raw_text = <<>>
    /\ original \in Originals
    /\ transcribed \in Transcriptions
    /\ differences = <<>>
    /\ fpc = "input"

\* diffs = find_differences(orig_chunk, trans_chunk, i + 1)
FindDifferences ==
    /\ fpc = "input"
    /\ differences' = find_differences(original, transcribed, 1)
    /\ fpc' = "done"
    /\ UNCHANGED <<original, transcribed>>
    /\ UNCHANGED <<cvars, dvars, gvars, tvars, pvars, raw_text, yvars>>

DiffNext == FindDifferences

SpecDiff == DiffInit /\ [][DiffNext]_vars

-----------------------------------------------------------------------------
(* The parallel runs: generate_mp3 of publish_novel.py and the Whisper     *)
(* path of detect_reading_errors.py.  Every chunk's synthesis is a task of  *)
(* a thread pool; the tasks finish in any order and as_completed hands      *)
(* their results to the collecting loop in that order.  An audio file is    *)
(* <<"audio", i>>, the speech of chunk i; a transcript is <<"text", i>>,    *)
(* what is heard in that file, or "" (the empty sequence).                  *)

MaxChunks == 3

\* str(e) of the exception a task caught: some message, or the empty string
\* of an exception raised without arguments
ErrorMessages == {<<"x">>, <<>>}
TaskOutcomes == {<<"ok">>} \cup {<<"raise", m>> : m \in ErrorMessages}

\* `if error:`
Truthy(error) == error # None /\ error # <<>>

\* the triple a synthesis task of generate_mp3 returns
generate_chunk(i, outcome) ==
    IF outcome[1] = "ok" THEN <<i, <<"audio", i>>, None>> ELSE <<i, None, outcome[2]>>

\* the triple a synthesis task of the detector returns
tts_task(i, outcome) ==
    IF outcome[1] = "ok" THEN <<i, <<"audio", i>>, None>> ELSE <<i, None, outcome[2]>>

\* the triple a transcription task returns; open(None) raises inside the try
whisper_task(audio_path, i, outcome) ==
    IF audio_path # None /\ outcome[1] = "ok"
    THEN <<i, <<"text", audio_path[2]>>, None>>
    ELSE <<i, <<>>, IF audio_path = None THEN <<"x">> ELSE outcome[2]>>

\* d[key] = value on a dict keyed by chunk index
IndexSet(d, key, value) ==
    [k \in (DOMAIN d) \cup {key} |-> IF k = key THEN value ELSE d[k]]

\* d.get(key, "")
IndexGet(d, key) == IF key \in DOMAIN d THEN d[key] ELSE <<>>

\* the text of chunk i: five characters, the (i+1)-th differs from the rest
ChunkText(i) == [k \in 1..MinSentenceLen |-> IF k = i + 1 THEN "b" ELSE "a"]

\* the text a transcript stands for
TranscriptText(t) == IF t = <<>> THEN <<>> ELSE ChunkText(t[2])

TasksInit ==
    /\ ChunkIdle
    /\ DictIdle
    /\ GateIdle
    /\ DiffIdle
    /\ PublishIdle
    /\ YIdle
    /\ raw_text = <<>>
    /\ prog \in {"generate_mp3", "detect"}
    /\ total_chunks \in 0..MaxChunks
    /\ tts_future = <<>>
    /\ tts_completed = <<>>
    /\ tts_seen = 0
    /\ audio_files_map = <<>>
    /\ whisper_future = <<>>
    /\ whisper_completed = <<>>
    /\ whisper_seen = 0
    /\ transcribed_map = <<>>
    /\ transcribed_texts = <<>>
    /\ output_mp3 = None
    /\ all_differences = <<>>
    /\ rpc = "start"
    /\ temp_files = {}

\* futures = {executor.submit(generate_chunk, ...) for i, chunk in enumerate(chunks)}
SubmitTts ==
    /\ rpc = "start"
    /\ tts_future' = [i \in 0..total_chunks - 1 |-> <<"running">>]
    /\ rpc' = "tts"
    /\ UNCHANGED <<prog, total_chunks, tts_completed, tts_seen, audio_files_map,
                   whisper_future, whisper_completed, whisper_seen, transcribed_map,
                   transcribed_texts, output_mp3, all_differences>>
    /\ UNCHANGED temp_files
    /\ UNCHANGED <<cvars, dvars, gvars, fvars, pvars, raw_text, yvars>>

\* a synthesis task finishes in a worker thread
TtsTaskCompletes ==
    /\ \E i \in DOMAIN tts_future, outcome \in TaskOutcomes :
        /\ tts_future[i] = <<"running">>
        /\ tts_future' = [tts_future EXCEPT ![i] =
                IF prog = "generate_mp3"
                THEN generate_chunk(i, outcome) ELSE tts_task(i, outcome)]
        /\ tts_completed' = Append(tts_completed, i)
        /\ temp_files' = IF prog = "generate_mp3" THEN temp_files \cup {i} ELSE temp_files
    /\ UNCHANGED <<prog, total_chunks, tts_seen, audio_files_map,
                   whisper_future, whisper_completed, whisper_seen, transcribed_map,
                   transcribed_texts, output_mp3, all_differences, rpc>>
    /\ UNCHANGED <<cvars, dvars, gvars, fvars, pvars, raw_text, yvars>>

\* for f in audio_files_map.values(): os.remove(f), an error of it swallowed:
\* the chunk indices whose file this removes
Removed(map) == {i \in DOMAIN map : map[i] # None}

\* one turn of generate_mp3's `for future in as_completed(futures)`; the
\* function's return waits for the tasks still running (the with block's exit)
Mp3Collect ==
    /\ prog = "generate_mp3"
    /\ rpc = "tts"
    /\ tts_seen < Len(tts_completed)
    /\ LET result == tts_future[tts_completed[tts_seen + 1]]
       IN  IF Truthy(result[3])
           THEN /\ rpc' = "returned_none"
                /\ temp_files' = temp_files \ Removed(audio_files_map)
                /\ UNCHANGED audio_files_map
           ELSE /\ audio_files_map' = IndexSet(audio_files_map, result[1], result[2])
                /\ rpc' = rpc
                /\ UNCHANGED temp_files
    /\ tts_seen' = tts_seen + 1
    /\ UNCHANGED <<prog, total_chunks, tts_future, tts_completed,
                   whisper_future, whisper_completed, whisper_seen, transcribed_map,
                   transcribed_texts, output_mp3, all_differences>>
    /\ UNCHANGED <<cvars, dvars, gvars, fvars, pvars, raw_text, yvars>>

\* audio_files = [audio_files_map[i] for i in range(len(chunks))]
Mp3AudioFiles_CompletionOrder(map, n) == [k \in 1..n |-> map[tts_completed[k]]]
Mp3AudioFiles(map, n) == [k \in 1..n |-> map[k - 1]]

\* after the loop: order the files, join them, export the result
Mp3Join ==
    /\ prog = "generate_mp3"
    /\ rpc = "tts"
    /\ tts_seen = total_chunks
    /\ IF \E i \in 0..total_chunks - 1 : i \notin DOMAIN audio_files_map
       THEN \* KeyError
            /\ rpc' = "crashed"
            /\ UNCHANGED <<output_mp3, temp_files>>
       ELSE LET audio_files == Mp3AudioFiles(audio_files_map, total_chunks)
            IN  IF audio_files = <<>> \/ \E k \in 1..Len(audio_files) : audio_files[k] = None
                THEN \* audio_files[0] of an empty list, from_mp3(None)
                     /\ rpc' = "crashed"
                     /\ UNCHANGED <<output_mp3, temp_files>>
                ELSE /\ output_mp3' = audio_files
                     /\ temp_files' = temp_files \ Removed(audio_files_map)
                     /\ rpc' = "exported"
    /\ UNCHANGED <<prog, total_chunks, tts_future, tts_completed, tts_seen,
                   audio_files_map, whisper_future, whisper_completed, whisper_seen,
                   transcribed_map, transcribed_texts, all_differences>>
    /\ UNCHANGED <<cvars, dvars, gvars, fvars, pvars, raw_text, yvars>>

\* one turn of the detector's `for future in as_completed(futures)` over the
\* synthesis tasks
DetectCollect ==
    /\ prog = "detect"
    /\ rpc = "tts"
    /\ tts_seen < Len(tts_completed)
    /\ LET result == tts_future[tts_completed[tts_seen + 1]]
       IN  audio_files_map' =
                IF Truthy(result[3]) THEN audio_files_map
                ELSE IndexSet(audio_files_map, result[1], result[2])
    /\ tts_seen' = tts_seen + 1
    /\ UNCHANGED <<prog, total_chunks, tts_future, tts_completed,
                   whisper_future, whisper_completed, whisper_seen, transcribed_map,
                   transcribed_texts, output_mp3, all_differences, rpc>>
    /\ UNCHANGED temp_files
    /\ UNCHANGED <<cvars, dvars, gvars, fvars, pvars, raw_text, yvars>>

\* audio_files = [audio_files_map[i] for i in range(total_chunks) if i in audio_files_map]
DetectAudioFiles(map, n) ==
    LET Loop[i \in 0..n] ==
            IF i = n THEN <<>>
            ELSE (IF i \in DOMAIN map THEN <<map[i]>> ELSE <<>>) \o Loop[i + 1]
    IN  Loop[0]

\* futures = [executor.submit(whisper_task, audio_files_map[i], i)
\*            for i in range(len(audio_files))]
SubmitWhisper ==
    /\ prog = "detect"
    /\ rpc = "tts"
    /\ tts_seen = total_chunks
    /\ LET audio_files == DetectAudioFiles(audio_files_map, total_chunks)
       IN  IF \E i \in 0..Len(audio_files) - 1 : i \notin DOMAIN audio_files_map
           THEN \* KeyError
                /\ rpc' = "crashed"
                /\ UNCHANGED whisper_future
           ELSE /\ whisper_future' = [i \in 0..Len(audio_files) - 1 |-> <<"running">>]
                /\ rpc' = "whisper"
    /\ UNCHANGED <<prog, total_chunks, tts_future, tts_completed, tts_seen,
                   audio_files_map, whisper_completed, whisper_seen, transcribed_map,
                   transcribed_texts, output_mp3, all_differences>>
    /\ UNCHANGED temp_files
    /\ UNCHANGED <<cvars, dvars, gvars, fvars, pvars, raw_text, yvars>>

\* a transcription task finishes in a worker thread
WhisperTaskCompletes ==
    /\ \E i \in DOMAIN whisper_future, outcome \in TaskOutcomes :
        /\ whisper_future[i] = <<"running">>
        /\ whisper_future' = [whisper_future EXCEPT ![i] =
                whisper_task(audio_files_map[i], i, outcome)]
        /\ whisper_completed' = Append(whisper_completed, i)
    /\ UNCHANGED <<prog, total_chunks, tts_future, tts_completed, tts_seen,
                   audio_files_map, whisper_seen, transcribed_map,
                   transcribed_texts, output_mp3, all_differences, rpc>>
    /\ UNCHANGED temp_files
    /\ UNCHANGED <<cvars, dvars, gvars, fvars, pvars, raw_text, yvars>>

\* one turn of the detector's loop over the transcription tasks
WhisperCollect ==
    /\ prog = "detect"
    /\ rpc = "whisper"
    /\ whisper_seen < Len(whisper_completed)
    /\ LET result == whisper_future[whisper_completed[whisper_seen + 1]]
       IN  transcribed_map' = IndexSet(transcribed_map, result[1], result[2])
    /\ whisper_seen' = whisper_seen + 1
    /\ UNCHANGED <<prog, total_chunks, tts_future, tts_completed, tts_seen,
                   audio_files_map, whisper_future, whisper_completed,
                   transcribed_texts, output_mp3, all_differences, rpc>>
    /\ UNCHANGED temp_files
    /\ UNCHANGED <<cvars, dvars, gvars, fvars, pvars, raw_text, yvars>>

\* transcribed_texts = [transcribed_map.get(i, "") for i in range(len(chunks))]
TranscribedTexts(map, n) == [k \in 1..n |-> IndexGet(map, k - 1)]

\* for i, (orig_chunk, trans_chunk) in enumerate(zip(chunks, clean_transcribed)):
\*     all_differences.extend(find_differences(orig_chunk, trans_chunk, i + 1))
CompareLoop(texts) ==
    LET Loop[i \in 0..Len(texts)] ==
            IF i = Len(texts) THEN <<>>
            ELSE find_differences(ChunkText(i),
                                  strip_ruby(TranscriptText(texts[i + 1])), i + 1)
                 \o Loop[i + 1]
    IN  Loop[0]

\* after the transcription loop: compare chunk by chunk and write the report
CompareAndReport ==
    /\ prog = "detect"
    /\ rpc = "whisper"
    /\ whisper_seen = Cardinality(DOMAIN whisper_future)
    /\ transcribed_texts' = TranscribedTexts(transcribed_map, total_chunks)
    /\ all_differences' = CompareLoop(transcribed_texts')
    /\ rpc' = "report_written"
    /\ UNCHANGED <<prog, total_chunks, tts_future, tts_completed, tts_seen,
                   audio_files_map, whisper_future, whisper_completed, whisper_seen,
                   transcribed_map, output_mp3>>
    /\ UNCHANGED temp_files
    /\ UNCHANGED <<cvars, dvars, gvars, fvars, pvars, raw_text, yvars>>

TasksNext ==
    \/ SubmitTts
    \/ TtsTaskCompletes
    \/ Mp3Collect
    \/ Mp3Join
    \/ DetectCollect
    \/ SubmitWhisper
    \/ WhisperTaskCompletes
    \/ WhisperCollect
    \/ CompareAndReport

SpecTasks == TasksInit /\ [][TasksNext]_vars

-----------------------------------------------------------------------------
(* Properties of the chunker.                                              *)

NoSpace(s) == SelectSeq(s, LAMBDA c : ~IsSpace(c))

\* the paragraphs of the text as the delimiter cuts them, untrimmed
RawParagraphs(s) == StrSplit(s, <<LF, LF>>)

\* position in s of its n-th non-blank character (n >= 1, and s has that many)
RECURSIVE NthNonSpace(_, _, _)
NthNonSpace(s, n, i) ==
    IF ~IsSpace(s[i]) THEN (IF n = 1 THEN i ELSE NthNonSpace(s, n - 1, i + 1))
    ELSE NthNonSpace(s, n, i + 1)

\* first position after pos holding a non-blank character, Len(s) + 1 if none
RECURSIVE NextNonSpace(_, _)
NextNonSpace(s, pos) ==
    IF pos + 1 > Len(s) THEN Len(s) + 1
    ELSE IF ~IsSpace(s[pos + 1]) THEN pos + 1 ELSE NextNonSpace(s, pos + 1)

\* the blank gap that follows position pos of s holds a paragraph delimiter
GapHasDelimiter(s, pos) ==
    \E j \in (pos + 1)..(NextNonSpace(s, pos) - 2) : StartsAt(s, j, <<LF, LF>>)

\* where in the text the boundary after chunk k falls: the position of the
\* last non-blank character of chunks 1..k
BoundaryPos(k) == NthNonSpace(text, Len(NoSpace(Flatten(SubSeq(chunks, 1, k)))), 1)

\* c holds no terminal mark except possibly as its last character
SingleSentence(c) == \A i \in 1..(Len(c) - 1) : c[i] \notin Terminals

\* C1 as stated: for every normalized text and every size limit, joining the
\* chunks in order with the paragraph delimiter reproduces the text exactly.
C1_JoinReproducesText ==
    (cpc = "done" /\ normalized) => StrJoin(chunks, <<LF, LF>>) = text

\* C1 amended: for a normalized text whose paragraphs all fit the size limit
\* and carry no leading or trailing blank, joining the chunks in order with
\* the paragraph delimiter reproduces the text exactly.
C1_JoinReproducesFittingText ==
    (/\ cpc = "done"
     /\ normalized
     /\ \A i \in 1..Len(RawParagraphs(text)) :
            /\ Len(RawParagraphs(text)[i]) <= max_size
            /\ Strip(RawParagraphs(text)[i]) = RawParagraphs(text)[i])
    => StrJoin(chunks, <<LF, LF>>) = text

\* a normalized text of several fitting paragraphs was split into several chunks,
\* one of them holding more than one paragraph
C1_Witness ==
    /\ cpc = "done"
    /\ normalized
    /\ Len(RawParagraphs(text)) >= 3
    /\ \A i \in 1..Len(RawParagraphs(text)) :
           /\ Len(RawParagraphs(text)[i]) <= max_size
           /\ Strip(RawParagraphs(text)[i]) = RawParagraphs(text)[i]
    /\ Len(chunks) = 2
    /\ StrJoin(chunks, <<LF, LF>>) = text

\* C2: chunking neither loses, duplicates nor reorders text: the chunks in
\* order, blanks removed, are the text with its blanks removed; the trailing
\* sentence group of a re-split oversized paragraph is carried on, not dropped.
C2_ContentPreserved ==
    cpc = "done" => NoSpace(Flatten(chunks)) = NoSpace(text)

\* an oversized paragraph was re-split, and its trailing sentence group went
\* into a later chunk together with the paragraph that follows it
C2_Witness ==
    /\ cpc = "done"
    /\ Len(Paragraphs(text)) = 2
    /\ Len(Paragraphs(text)[1]) > max_size
    /\ Len(chunks) >= 2
    /\ \E j \in 1..Len(chunks[Len(chunks)]) : StartsAt(chunks[Len(chunks)], j, <<LF, LF>>)
    /\ NoSpace(Flatten(chunks)) = NoSpace(text)

\* C3: every chunk has length <= max_size unless it is one single sentence
\* that is by itself longer than max_size.
C3_SizeBound ==
    cpc = "done" =>
        \A k \in 1..Len(chunks) :
            Len(chunks[k]) <= max_size \/ SingleSentence(chunks[k])

\* the split produced an oversized single-sentence chunk next to fitting ones
C3_Witness ==
    /\ cpc = "done"
    /\ Len(chunks) >= 3
    /\ \E k \in 1..Len(chunks) : Len(chunks[k]) > max_size /\ SingleSentence(chunks[k])
    /\ \E k \in 1..Len(chunks) : Len(chunks[k]) = max_size /\ ~SingleSentence(chunks[k])

\* C4: every boundary between two consecutive chunks falls at a paragraph
\* delimiter or right after a terminal mark, so no sentence is divided
\* between two chunks and an oversized sentence is emitted whole.
C4_BoundariesAtSentenceEnds ==
    cpc = "done" =>
        \A k \in 1..(Len(chunks) - 1) :
            \/ text[BoundaryPos(k)] \in Terminals
            \/ GapHasDelimiter(text, BoundaryPos(k))

\* a boundary fell after a terminal mark inside a paragraph, and a sentence
\* longer than max_size was emitted whole
C4_Witness ==
    /\ cpc = "done"
    /\ \E k \in 1..(Len(chunks) - 1) :
           /\ text[BoundaryPos(k)] \in Terminals
           /\ ~GapHasDelimiter(text, BoundaryPos(k))
    /\ \E k \in 1..Len(chunks) : Len(chunks[k]) > max_size
    /\ NoSpace(Flatten(chunks)) = NoSpace(text)

-----------------------------------------------------------------------------
(* Properties of the corrections dictionary.                               *)

Chars(s) == {s[i] : i \in 1..Len(s)}

\* no reading contains a key of the dictionary
NoReadingContainsKey(d) ==
    \A i, j \in 1..Len(d) : ~Contains(d[i][2], d[j][1])

\* every reading is non-empty and shares no character with any key
ReadingsDisjointFromKeys(d) ==
    \A i, j \in 1..Len(d) : d[i][2] # <<>> /\ Chars(d[i][2]) \cap Chars(d[j][1]) = {}

\* w is a proper substring of v
ProperSubstring(w, v) == Len(w) < Len(v) /\ Contains(v, w)

\* the dictionary is two entries whose keys are nested
NestedPair(d) ==
    /\ Len(d) = 2
    /\ \/ ProperSubstring(d[1][1], d[2][1])
       \/ ProperSubstring(d[2][1], d[1][1])

LongEntry(d) == IF Len(d[1][1]) > Len(d[2][1]) THEN d[1] ELSE d[2]
ShortEntry(d) == IF Len(d[1][1]) > Len(d[2][1]) THEN d[2] ELSE d[1]

\* s with every occurrence of the longer key replaced by the longer reading
\* as one unit, and the shorter entry applied to the text between them only
LongestFirstResult(s, d) ==
    LET pieces == StrSplit(s, LongEntry(d)[1])
    IN  StrJoin([i \in 1..Len(pieces) |->
                    StrReplace(pieces[i], ShortEntry(d)[1], ShortEntry(d)[2])],
                LongEntry(d)[2])

C6_Idempotent ==
    (dtimes = 2 /\ NoReadingContainsKey(corrections)) => dout = dprev

\* C6 amended: when every reading is non-empty and shares no character with
\* any key, applying the dictionary a second time changes nothing.
C6_IdempotentDisjointReadings ==
    (dtimes = 2 /\ ReadingsDisjointFromKeys(corrections)) => dout = dprev

\* a dictionary of two entries with clean readings changed the text on the
\* first application and left it alone on the second
C6_Witness ==
    /\ dtimes = 2
    /\ Len(corrections) = 2
    /\ ReadingsDisjointFromKeys(corrections)
    /\ dprev # dtext
    /\ dout = dprev

Reverse(d) == [i \in 1..Len(d) |-> d[Len(d) + 1 - i]]

\* C7: the output of apply_replacements depends only on the set of entries:
\* the same entries inserted in the opposite order give the same output.
C7_InsertionOrderIrrelevant ==
    dtimes = 1 => dout = apply_replacements(dprev, Reverse(corrections))

-----------------------------------------------------------------------------
(* Properties of dictionary synthesis.                                     *)

\* w is a contiguous piece of s
Occurs(w, s) == \E i \in 1..(Len(s) + 1), j \in 0..Len(s) : SubSeq(s, i, j) = w

\* the run wrote proposals of the service into the YAML
WroteProposals == gpc \in {"sync_written", "generated", "generated_v2"}

\* C8: no proposal of the service is written into a persisted dictionary
\* unless it passed every rule of the validation gate (judged against the
\* document's text).
C8_OnlyGatedProposalsPersisted ==
    WroteProposals =>
        \A i \in 1..Len(validated) :
            (/\ DictHas(yaml_corr, validated[i][1])
             /\ DictGet(yaml_corr, validated[i][1]) = validated[i][2])
            => GateVerdict(validated[i][1], validated[i][2], source_text, <<>>) = "ok"

\* the proposals went through validate_corrections or the generator's filter
Gated == gate_used \in {"validate_corrections", "filter"}

\* C9: every proposal accepted by validate_corrections or kept by the filter
\* of generate_corrections has a key that occurs in the source text, is at
\* least 2 long and holds an ideograph; a proposal whose key does not occur
\* in the source text is never accepted, and validate_corrections records it
\* as rejected.
C9_AcceptedKeysOccurInSource ==
    Gated =>
        /\ \A i \in 1..Len(validated) :
               /\ Occurs(validated[i][1], source_text)
               /\ Len(validated[i][1]) >= 2
               /\ \E k \in 1..Len(validated[i][1]) : validated[i][1][k] \in {"K", "J"}
        /\ \A i \in 1..Len(new_data) :
               ~Occurs(new_data[i][1], source_text) =>
                   /\ ~DictHas(validated, new_data[i][1])
                   /\ gate_used = "validate_corrections" =>
                          \E j \in 1..Len(rejected) : rejected[j][1] = new_data[i][1]

\* validate_corrections accepted a proposal, and it was merged into a YAML
\* that already held another entry
C9_Witness ==
    /\ gate_used = "validate_corrections"
    /\ gpc = "sync_written"
    /\ Len(validated) = 1
    /\ Occurs(validated[1][1], source_text)
    /\ Len(yaml_corr) = 2
    /\ yaml_corr[2] = validated[1]

\* C10: every accepted or kept proposal has a reading that is non-empty and
\* consists of kana only.
C10_AcceptedReadingsAreKana ==
    Gated =>
        \A i \in 1..Len(validated) :
            /\ validated[i][2] # <<>>
            /\ \A k \in 1..Len(validated[i][2]) : validated[i][2][k] \in {"h", "t", "cho"}

\* validate_corrections ran on the service's answer
Validated == gate_used = "validate_corrections"

\* the rejected list records the pair (word, reading) with the given reason
RejectedAs(word, reading, reason) ==
    \E j \in 1..Len(rejected) : rejected[j] = <<word, reading, reason>>

\* C11 as stated: validate_corrections rejects every proposal whose key is a
\* single character and records it with the single-character reason.
C11_OneCharRejectedWithReason ==
    Validated =>
        \A i \in 1..Len(new_data) :
            Len(new_data[i][1]) = 1 =>
                /\ ~DictHas(validated, new_data[i][1])
                /\ RejectedAs(new_data[i][1], new_data[i][2], "one_char")

\* C11 amended: every proposal whose key is a single character is rejected and
\* recorded; the reason is the single-character one when key and reading are
\* non-blank strings and the key occurs in the source text (otherwise an
\* earlier rule has rejected it with its own reason).
C11_OneCharRejected ==
    Validated =>
        \A i \in 1..Len(new_data) :
            Len(new_data[i][1]) = 1 =>
                /\ ~DictHas(validated, new_data[i][1])
                /\ \E j \in 1..Len(rejected) :
                       /\ rejected[j][1] = new_data[i][1]
                       /\ rejected[j][2] = new_data[i][2]
                /\ (/\ new_data[i][2] # NonStr
                    /\ new_data[i][1] # <<SP>>
                    /\ new_data[i][2] \notin {<<>>, <<SP>>}
                    /\ Occurs(new_data[i][1], source_text))
                   => RejectedAs(new_data[i][1], new_data[i][2], "one_char")

\* a one-character ideograph that occurs in the text, proposed with a kana
\* reading, was rejected with the single-character reason and nothing written
C11_Witness ==
    /\ Validated
    /\ gpc = "sync_nothing_valid"
    /\ Len(new_data) = 1
    /\ new_data[1] = <<<<"K">>, <<"h">>>>
    /\ Occurs(<<"K">>, source_text)
    /\ rejected = <<<<<<"K">>, <<"h">>, "one_char">>>>
    /\ validated = <<>>

-----------------------------------------------------------------------------
(* Properties of the difference detector.                                  *)

\* the units of a text as a set of positions
UnitIndex(s) == 1..Len(SentenceUnits(s))

\* the highest ratio of the original unit u over the candidate units
\* (there is at least one)
BestRatio(u) ==
    LET rs == {Ratio(normalize_text(u), normalize_text(SentenceUnits(transcribed)[k])) :
                   k \in UnitIndex(transcribed)}
    IN  CHOOSE r \in rs : \A q \in rs : ~Less(r, q)

\* a record of the result refers to the original unit u
Recorded(u) == \E k \in 1..Len(differences) : differences[k].original = u

\* C12: for every original unit of length >= 5 in a chunk whose candidate
\* text holds at least one unit, find_differences emits a record for the unit
\* whenever its best ratio r satisfies 0 <= r < 0.95.
C12_BelowThresholdRecorded ==
    (fpc = "done" /\ UnitIndex(transcribed) # {}) =>
        \A i \in UnitIndex(original) :
            LET u == SentenceUnits(original)[i]
            IN  (Len(u) >= MinSentenceLen
                 /\ Less(BestRatio(u), <<ThresholdNum, ThresholdDen>>))
                => Recorded(u)

\* u and some candidate unit have the same comparison-normalized form
HasEqualCandidate(u) ==
    \E k \in UnitIndex(transcribed) :
        normalize_text(SentenceUnits(transcribed)[k]) = normalize_text(u)

\* C13: an original unit whose normalized form equals the normalized form of
\* a candidate unit of the chunk has best ratio 1.0 and gets no record.
C13_EqualNormalizedNotRecorded ==
    fpc = "done" =>
        \A i \in UnitIndex(original) :
            LET u == SentenceUnits(original)[i]
            IN  HasEqualCandidate(u) =>
                    /\ BestOf(u, SentenceUnits(transcribed)).best_ratio[1]
                           = BestOf(u, SentenceUnits(transcribed)).best_ratio[2]
                    /\ ~Recorded(u)

\* an original unit long enough to be scored differs from every candidate
\* unit as written, equals one after normalization, and is not recorded
C13_Witness ==
    /\ fpc = "done"
    /\ \E i \in UnitIndex(original) :
           LET u == SentenceUnits(original)[i]
           IN  /\ Len(u) >= MinSentenceLen
               /\ HasEqualCandidate(u)
               /\ \A k \in UnitIndex(transcribed) : SentenceUnits(transcribed)[k] # u
               /\ ~Recorded(u)

\* C14: a chunk whose transcription holds no candidate unit yields no record,
\* whatever the original holds.
C14_NoCandidatesNoRecords ==
    (fpc = "done" /\ UnitIndex(transcribed) = {}) => differences = <<>>

\* an original with a unit long enough to be scored met an empty transcription
C14_Witness ==
    /\ fpc = "done"
    /\ transcribed = <<>>
    /\ \E i \in UnitIndex(original) : Len(SentenceUnits(original)[i]) >= MinSentenceLen
    /\ differences = <<>>

-----------------------------------------------------------------------------
(* Properties of the parallel runs.                                        *)

\* the synthesis of chunk i has finished with an exception
TtsFailed(i) == tts_future[i] # <<"running">> /\ tts_future[i][3] # None

\* the transcription of chunk i has finished with an exception
WhisperFailed(i) ==
    /\ i \in DOMAIN whisper_future
    /\ whisper_future[i] # <<"running">>
    /\ whisper_future[i][3] # None

\* the records of the report that refer to chunk i
RecordsOf(i) == SelectSeq(all_differences, LAMBDA r : r.chunk = i + 1)

\* C15: on the Whisper path, whatever subset of the chunks fails in synthesis
\* or transcription, the run does not abort; at the report a failed chunk
\* has no record and every other chunk i was compared with the transcript of
\* chunk i.
C15_FailuresTolerated ==
    prog = "detect" =>
        /\ rpc # "crashed"
        /\ rpc = "report_written" =>
               \A i \in 0..total_chunks - 1 :
                   IF TtsFailed(i) \/ WhisperFailed(i)
                   THEN RecordsOf(i) = <<>>
                   ELSE transcribed_texts[i + 1] = <<"text", i>>

\* C16: the results are joined by chunk index whatever the order of
\* completion: the exported MP3 holds the audio of chunk i at position i, and
\* the report compares chunk i with nothing or with the transcript of chunk
\* i's audio (a transcript repeats its chunk's text here, so any record would
\* come from a comparison across chunks).
C16_JoinedByIndex ==
    /\ rpc = "exported" =>
           output_mp3 = [k \in 1..total_chunks |-> <<"audio", k - 1>>]
    /\ rpc = "report_written" =>
           /\ Len(transcribed_texts) = total_chunks
           /\ \A i \in 0..total_chunks - 1 :
                  transcribed_texts[i + 1] \in {<<>>, <<"text", i>>}
           /\ all_differences = <<>>

\* the tasks of a sequence of completions did not finish in index order
OutOfOrder(completed) ==
    \E j, k \in 1..Len(completed) : j < k /\ completed[j] > completed[k]

\* a report over three transcribed chunks whose synthesis tasks and whose
\* transcription tasks both finished out of index order
C16_Witness ==
    /\ rpc = "report_written"
    /\ total_chunks = MaxChunks
    /\ OutOfOrder(tts_completed)
    /\ OutOfOrder(whisper_completed)
    /\ \A i \in 0..total_chunks - 1 : transcribed_texts[i + 1] = <<"text", i>>

\* the collecting loop of generate_mp3 has taken the result of a failed task
CollectedFailure ==
    \E k \in 1..tts_seen : tts_future[tts_completed[k]][3] # None

\* C17: generate_mp3 exports the MP3 only if the synthesis of every chunk
\* succeeded; once the loop has met a failed chunk the function returns None
\* and there is no output.
C17_FailureReturnsNone ==
    prog = "generate_mp3" =>
        /\ output_mp3 # None =>
               \A i \in 0..total_chunks - 1 : tts_future[i] = <<i, <<"audio", i>>, None>>
        /\ CollectedFailure => (rpc = "returned_none" /\ output_mp3 = None)

-----------------------------------------------------------------------------
(* Properties of dictionary merging.                                       *)

\* the keys of a dict
KeySet(d) == {d[i][1] : i \in 1..Len(d)}

\* the reading a key gets from tiers of dictionaries, the first tier that
\* holds the key deciding
FirstOf(tiers, key) ==
    DictGet(tiers[CHOOSE i \in 1..Len(tiers) :
                      /\ DictHas(tiers[i], key)
                      /\ \A j \in 1..(i - 1) : ~DictHas(tiers[j], key)], key)

\* C18: merging is a union in which the last writer wins.  After
\* sync_from_report has merged, the YAML holds the keys it held and the
\* accepted ones, an accepted key with the proposal's reading, any other key
\* with the reading it had; the dictionary generate_mp3 applies holds the keys
\* of the three tiers, each with the reading of the document's entry, else of
\* the configuration's entry, else of the built-in default.
C18_LastWriterWinsUnion ==
    /\ gpc = "sync_written" =>
           /\ KeySet(yaml_corr) = KeySet(yaml_before) \cup KeySet(validated)
           /\ \A k \in KeySet(yaml_corr) :
                  DictGet(yaml_corr, k) = FirstOf(<<validated, yaml_before>>, k)
    /\ ppc = "dictionary_ready" =>
           /\ KeySet(corrections) =
                  KeySet(yaml_corr) \cup KeySet(config_loaded) \cup KeySet(DEFAULT_CORRECTIONS)
           /\ \A k \in KeySet(corrections) :
                  DictGet(corrections, k) =
                      FirstOf(<<yaml_corr, config_loaded, DEFAULT_CORRECTIONS>>, k)

\* the merge replaced the reading of one existing key and kept another
\* existing key, and the replaced key is also in the configuration and among
\* the defaults, with three different readings
C18_Witness ==
    /\ gpc = "sync_written"
    /\ ppc = "dictionary_ready"
    /\ \E k \in KeySet(validated) \cap KeySet(yaml_before) :
           /\ DictGet(validated, k) # DictGet(yaml_before, k)
           /\ DictHas(config_loaded, k)
           /\ DictHas(DEFAULT_CORRECTIONS, k)
           /\ DictGet(config_loaded, k) # DictGet(validated, k)
           /\ DictGet(DEFAULT_CORRECTIONS, k) # DictGet(config_loaded, k)
           /\ DictGet(corrections, k) = DictGet(validated, k)
    /\ KeySet(yaml_before) \ KeySet(validated) # {}

-----------------------------------------------------------------------------
(* Properties of the calls to the external services.                       *)

\* C19: when the text-analysis service is unavailable or its response does
\* not parse, the operation that called it ends with an empty result, never
\* with an error: sync_from_report does not end on an exception and
\* _run_gemini_mode does not end on sys.exit(1).
C19_ServiceFailureGivesEmptyResult == gpc \notin {"sync_raised", "gemini_exit"}

-----------------------------------------------------------------------------
(* Properties of the normalization.                                        *)

\* s holds the character c
Holds(s, c) == \E i \in 1..Len(s) : s[i] = c

\* C20: after the normalization no carriage return is left in the text,
\* whichever line terminators (CRLF, a lone CR, LF) the file held.
C20_NoCarriageReturnLeft == normalized => ~Holds(text, CR)

\* a file with a CRLF and with a carriage return that no line feed follows,
\* not at either end of the text, has been normalized
C20_Witness ==
    /\ normalized
    /\ \E i \in 2..Len(raw_text) - 2 :
           /\ raw_text[i] = CR
           /\ raw_text[i + 1] = "a"
           /\ raw_text[i - 1] = "a"
    /\ \E i \in 1..Len(raw_text) - 1 : raw_text[i] = CR /\ raw_text[i + 1] = LF
    /\ Holds(text, LF)

-----------------------------------------------------------------------------
(* Properties of the paragraph loop.                                       *)

\* the state of the outer loop after the first k paragraphs of the text
LoopStateAfter(k) ==
    ParagraphLoop(SubSeq(Paragraphs(text), 1, k), max_size,
                  [chunks |-> <<>>, current_chunk |-> <<>>])

\* between st and nxt the paragraph joined the current chunk
Appended(st, paragraph, nxt) ==
    /\ nxt.chunks = st.chunks
    /\ nxt.current_chunk = IF st.current_chunk # <<>>
                           THEN st.current_chunk \o <<LF, LF>> \o paragraph
                           ELSE paragraph

\* between st and nxt the current chunk was flushed and the paragraph began
\* a new one
FlushedAndStarted(st, paragraph, nxt) ==
    /\ nxt.chunks = Append(st.chunks, Strip(st.current_chunk))
    /\ nxt.current_chunk = paragraph

\* C21: a paragraph that is not oversized joins the current chunk exactly
\* when len(current) + len(paragraph) <= max_size; otherwise the current chunk
\* is flushed and the paragraph starts a new one.
C21_AppendedIffSumFits ==
    cpc = "done" =>
        \A k \in 1..Len(Paragraphs(text)) :
            LET paragraph == Paragraphs(text)[k]
                st == LoopStateAfter(k - 1)
                nxt == LoopStateAfter(k)
            IN  Len(paragraph) <= max_size =>
                    IF Len(st.current_chunk) + Len(paragraph) <= max_size
                    THEN Appended(st, paragraph, nxt)
                    ELSE FlushedAndStarted(st, paragraph, nxt)

\* the length the code tests: the delimiter counts when there is a current
\* chunk to join
JoinedLen(st, paragraph) ==
    Len(st.current_chunk) + (IF st.current_chunk # <<>> THEN 2 ELSE 0) + Len(paragraph)

\* C21 (amended): a paragraph that is not oversized joins the current chunk
\* exactly when the joined text, delimiter included, is no longer than
\* max_size; otherwise the current chunk, which is then not empty, is flushed
\* and the paragraph starts a new one.
C21_AppendedIffJoinedFits ==
    cpc = "done" =>
        \A k \in 1..Len(Paragraphs(text)) :
            LET paragraph == Paragraphs(text)[k]
                st == LoopStateAfter(k - 1)
                nxt == LoopStateAfter(k)
            IN  Len(paragraph) <= max_size =>
                    IF JoinedLen(st, paragraph) <= max_size
                    THEN Appended(st, paragraph, nxt)
                    ELSE st.current_chunk # <<>> /\ FlushedAndStarted(st, paragraph, nxt)

\* one paragraph joined a current chunk, and another started a new chunk
\* although its length and the current chunk's add up to no more than max_size
C21_Witness ==
    /\ cpc = "done"
    /\ \E k \in 1..Len(Paragraphs(text)) :
           LET paragraph == Paragraphs(text)[k]
               st == LoopStateAfter(k - 1)
           IN  /\ st.current_chunk # <<>>
               /\ JoinedLen(st, paragraph) <= max_size
               /\ Appended(st, paragraph, LoopStateAfter(k))
    /\ \E k \in 1..Len(Paragraphs(text)) :
           LET paragraph == Paragraphs(text)[k]
               st == LoopStateAfter(k - 1)
           IN  /\ Len(st.current_chunk) + Len(paragraph) <= max_size
               /\ JoinedLen(st, paragraph) > max_size
               /\ FlushedAndStarted(st, paragraph, LoopStateAfter(k))

(***************************************************************************)
(* pipeline.py: process_novel, one document taken through STEP 1 to 9.     *)
(* Every script is run as a child process by run_script; what becomes of   *)
(* the child is an input of process_novel.                                 *)
(***************************************************************************)

\* what can become of the child process subprocess.run starts
ChildOutcomes == {"returncode_0", "returncode_nonzero", "timeout", "exception"}

\* run_script: True only when the child ended in time with return code 0
run_script(child) == child = "returncode_0"

\* the long options each script's ArgumentParser declares
DeclaredOptions(script) ==
    CASE script = "generate_corrections.py" -> {"--mode"}
      [] script = "publish_novel.py" ->
            {"--title", "--description", "--voice", "--model", "--episode",
             "--mp3-only", "--feed-only", "--mp3", "--no-push"}
      [] script = "detect_reading_errors.py" ->
            {"--mp3", "--voice", "--model", "--chunk-size", "--engine", "--gemini-model"}
      [] script = "fix_corrections_from_report.py" -> {"--report", "--text"}

\* a command line: the script and the options that follow it
Command(script, options) == [script |-> script, options |-> options]

\* step_ok with the result of one more step
WithResult(step, ok) ==
    [s \in DOMAIN step_ok \cup {step} |-> IF s = step THEN ok ELSE step_ok[s]]

\* find_latest_mp3: a file of MP3_DIR whose name matches the document's, or None
find_latest_mp3(exists) == IF exists THEN <<"mp3">> ELSE None

PipelineInit ==
    /\ ChunkIdle
    /\ DictIdle
    /\ GateIdle
    /\ DiffIdle
    /\ TasksIdle
    /\ PublishIdle
    /\ ReportIdle
    /\ ContextIdle
    /\ raw_text = <<>>
    /\ test_mode \in BOOLEAN
    /\ yaml_exists \in BOOLEAN
    /\ report_file \in {"absent", "earlier_run"}
    /\ mp3_exists \in BOOLEAN
    /\ steps_run = {}
    /\ step_ok = <<>>
    /\ final_mp3 = None
    /\ consumed = "nothing"
    /\ invoked = {}
    /\ lpc = "step1"

\* STEP 1: an existing YAML is kept, otherwise generate_corrections.py is run
\* (it can end with return code 0 without having written the YAML)
Step1_Dictionary ==
    /\ lpc = "step1"
    /\ steps_run' = steps_run \cup {1}
    /\ IF yaml_exists
       THEN UNCHANGED <<yaml_exists, step_ok, invoked>>
       ELSE \E child \in ChildOutcomes :
              /\ invoked' = invoked \cup {Command("generate_corrections.py", {"--mode"})}
              /\ step_ok' = WithResult(1, run_script(child))
              /\ yaml_exists' \in IF run_script(child) THEN BOOLEAN ELSE {FALSE}
    /\ lpc' = "step2"
    /\ UNCHANGED <<test_mode, report_file, mp3_exists, final_mp3, consumed>>
    /\ UNCHANGED <<cvars, dvars, gvars, fvars, tvars, pvars, raw_text, rvars, kvars>>

\* STEP 2: the first MP3
Step2_FirstMp3 ==
    /\ lpc = "step2"
    /\ steps_run' = steps_run \cup {2}
    /\ \E child \in ChildOutcomes :
         /\ invoked' = invoked \cup {Command("publish_novel.py", {"--test"})}
         /\ step_ok' = WithResult(2, run_script(child))
         /\ mp3_exists' \in IF run_script(child) THEN {mp3_exists, TRUE} ELSE {mp3_exists}
         /\ lpc' = IF ~run_script(child) THEN "returned_false"
                   ELSE IF find_latest_mp3(mp3_exists') = None THEN "returned_false"
                   ELSE "step3"
    /\ UNCHANGED <<test_mode, yaml_exists, report_file, final_mp3, consumed>>
    /\ UNCHANGED <<cvars, dvars, gvars, fvars, tvars, pvars, raw_text, rvars, kvars>>

\* STEP 3: detect_reading_errors.py writes BASE_DIR/reading_errors_report.txt
\* as its last act; a failure of the step is only reported
Step3_Detect ==
    /\ lpc = "step3"
    /\ steps_run' = steps_run \cup {3}
    /\ \E child \in ChildOutcomes :
         /\ invoked' = invoked \cup {Command("detect_reading_errors.py", {"--mp3"})}
         /\ step_ok' = WithResult(3, run_script(child))
         /\ report_file' \in IF run_script(child) THEN {"this_run"}
                             ELSE IF child = "timeout" THEN {report_file, "this_run"}
                             ELSE {report_file}
    /\ lpc' = "step4"
    /\ UNCHANGED <<test_mode, yaml_exists, mp3_exists, final_mp3, consumed>>
    /\ UNCHANGED <<cvars, dvars, gvars, fvars, tvars, pvars, raw_text, rvars, kvars>>

\* STEP 4: the report and the YAML both on disk: the fixing script is run
Step4_Fix ==
    /\ lpc = "step4"
    /\ steps_run' = steps_run \cup {4}
    /\ IF report_file # "absent" /\ yaml_exists
       THEN \E child \in ChildOutcomes :
              /\ invoked' = invoked \cup
                    {Command("fix_corrections_from_report.py", {"--report", "--text"})}
              /\ step_ok' = WithResult(4, run_script(child))
              /\ consumed' = report_file
       ELSE UNCHANGED <<invoked, step_ok, consumed>>
    /\ lpc' = "step5"
    /\ UNCHANGED <<test_mode, yaml_exists, report_file, mp3_exists, final_mp3>>
    /\ UNCHANGED <<cvars, dvars, gvars, fvars, tvars, pvars, raw_text, rvars, kvars>>

\* where process_novel goes after STEP 5
AfterStep5_TestModeIgnored(ok, found, mode) ==
    IF ~ok THEN "returned_false"
    ELSE IF found = None THEN "returned_false"
    ELSE "step6"

AfterStep5(ok, found, mode) ==
    IF ~ok THEN "returned_false"
    ELSE IF found = None THEN "returned_false"
    ELSE IF mode THEN "returned_true"
    ELSE "step6"

\* STEP 5: the final MP3
Step5_FinalMp3 ==
    /\ lpc = "step5"
    /\ steps_run' = steps_run \cup {5}
    /\ \E child \in ChildOutcomes :
         /\ invoked' = invoked \cup
               {Command("publish_novel.py", IF test_mode THEN {"--test"} ELSE {"--mp3-only"})}
         /\ step_ok' = WithResult(5, run_script(child))
         /\ mp3_exists' \in IF run_script(child) THEN {mp3_exists, TRUE} ELSE {mp3_exists}
         /\ final_mp3' = IF run_script(child) THEN find_latest_mp3(mp3_exists') ELSE None
         /\ lpc' = AfterStep5(run_script(child), find_latest_mp3(mp3_exists'), test_mode)
    /\ UNCHANGED <<test_mode, yaml_exists, report_file, consumed>>
    /\ UNCHANGED <<cvars, dvars, gvars, fvars, tvars, pvars, raw_text, rvars, kvars>>

\* STEP 6: the text and its YAML are moved to novels/completed (a failure of
\* the move is only reported)
Step6_Move ==
    /\ lpc = "step6"
    /\ steps_run' = steps_run \cup {6}
    /\ yaml_exists' \in {yaml_exists, FALSE}
    /\ lpc' = "step7"
    /\ UNCHANGED <<test_mode, report_file, mp3_exists, step_ok, final_mp3, consumed, invoked>>
    /\ UNCHANGED <<cvars, dvars, gvars, fvars, tvars, pvars, raw_text, rvars, kvars>>

\* STEP 7: the one-minute preview; on a failure the full MP3 stands in
Step7_Preview ==
    /\ lpc = "step7"
    /\ steps_run' = steps_run \cup {7}
    /\ \E made \in BOOLEAN : step_ok' = WithResult(7, made)
    /\ lpc' = "step8"
    /\ UNCHANGED <<test_mode, yaml_exists, report_file, mp3_exists, final_mp3, consumed,
                   invoked>>
    /\ UNCHANGED <<cvars, dvars, gvars, fvars, tvars, pvars, raw_text, rvars, kvars>>

\* STEP 8: the feed entry
Step8_Feed ==
    /\ lpc = "step8"
    /\ steps_run' = steps_run \cup {8}
    /\ \E child \in ChildOutcomes :
         /\ invoked' = invoked \cup
               {Command("publish_novel.py", {"--feed-only", "--mp3", "--title"})}
         /\ step_ok' = WithResult(8, run_script(child))
    /\ lpc' = "step9"
    /\ UNCHANGED <<test_mode, yaml_exists, report_file, mp3_exists, final_mp3, consumed>>
    /\ UNCHANGED <<cvars, dvars, gvars, fvars, tvars, pvars, raw_text, rvars, kvars>>

\* STEP 9: git add, commit and push, each run only after the one before
Step9_Push ==
    /\ lpc = "step9"
    /\ steps_run' = steps_run \cup {9}
    /\ \E add \in ChildOutcomes, commit \in BOOLEAN, push \in ChildOutcomes :
         step_ok' = WithResult(9, run_script(add) /\ commit /\ run_script(push))
    /\ lpc' = "returned_true"
    /\ UNCHANGED <<test_mode, yaml_exists, report_file, mp3_exists, final_mp3, consumed,
                   invoked>>
    /\ UNCHANGED <<cvars, dvars, gvars, fvars, tvars, pvars, raw_text, rvars, kvars>>

PipelineNext ==
    \/ Step1_Dictionary
    \/ Step2_FirstMp3
    \/ Step3_Detect
    \/ Step4_Fix
    \/ Step5_FinalMp3
    \/ Step6_Move
    \/ Step7_Preview
    \/ Step8_Feed
    \/ Step9_Push

SpecPipeline == PipelineInit /\ [][PipelineNext]_vars

PublishingSteps == {6, 7, 8, 9}

\* C22: a publishing step (STEP 6 move, 7 preview, 8 feed, 9 push) has been
\* entered only if STEP 5's script succeeded, a final MP3 was found and
\* process_novel does not run in test mode
C22_PublishingOnlyAfterFinalMp3 ==
    (steps_run \cap PublishingSteps # {}) =>
        /\ 5 \in DOMAIN step_ok
        /\ step_ok[5]
        /\ final_mp3 # None
        /\ ~test_mode

\* a run that went through all four publishing steps
C22_Witness ==
    /\ lpc = "returned_true"
    /\ PublishingSteps \subseteq steps_run

\* C23: every option of every command line process_novel has run is declared
\* by the parser of the script it was given to
C23_OptionsDeclared ==
    \A c \in invoked : c.options \subseteq DeclaredOptions(c.script)

Entries(d) == {d[i] : i \in 1..Len(d)}

\* C24: the dictionary applied to a document holds only entries of the
\* defaults, of config.yaml and of that document's own corrections, and
\* processing a document leaves config['reading_corrections'] as loaded
C24_NoLeakBetweenDocuments ==
    /\ ppc = "next_dictionary_ready" =>
          Entries(corrections) \subseteq
             Entries(DEFAULT_CORRECTIONS) \cup Entries(config_loaded) \cup Entries(next_corr)
    /\ ppc = "dictionary_ready" => config_corrections = config_loaded

(***************************************************************************)
(* Properties of the temporary chunk files of generate_mp3                 *)
(***************************************************************************)

\* generate_mp3 took the error branch and its return has waited for every task
ReturnedAfterFailure ==
    /\ prog = "generate_mp3"
    /\ rpc = "returned_none"
    /\ \A i \in DOMAIN tts_future : tts_future[i] # <<"running">>

\* C25: once generate_mp3 has returned after a chunk's failure, no temporary
\* chunk file of the run is on disk
C25_NoTempFileLeft == ReturnedAfterFailure => temp_files = {}

(***************************************************************************)
(* fix_corrections_from_report.py: parse_report and                        *)
(* filter_meaningful_differences.  A report is a list of lines; a line is  *)
(* told apart by the three tests parse_report makes on it after strip():   *)
(*   <<"header", num, ratio>>   "【num】チャンク k (一致率: ratio%)"         *)
(*                              (the Whisper report; matches the regex)    *)
(*   <<"gemini_header", num>>   "【num】読み間違い" (the Gemini report; the   *)
(*                              regex asks for 一致率 and does not match)   *)
(*   <<"original", s>>          "原文: s"                                   *)
(*   <<"recognized", s>>        "認識: s"  (the Whisper report)             *)
(*   <<"spoken", s>>            "音声: s"  (the Gemini report)              *)
(*   <<"other">>                a rule, a banner line, an empty line       *)
(***************************************************************************)

MaxReportLines == 4

\* the match rates (per cent) a header line may carry
ReportRatios == {10, 50, 99}

ReportLines ==
    {<<"header", 1, r>> : r \in ReportRatios}
    \cup {<<"gemini_header", 1>>, <<"other">>}
    \cup {<<"original", o>> : o \in {<<>>, <<"a">>, <<"a", "b", "ku">>}}
    \cup {<<"recognized", <<"a", "b">>>>, <<"spoken", <<"a", "b">>>>}

Reports == StringsUpTo(ReportLines, MaxReportLines)

\* a Python dict with string keys: a function on the set of its keys
EmptyDict == [k \in {} |-> 0]

\* d[key] = value
DictPut(d, key, value) == [k \in DOMAIN d \cup {key} |-> IF k = key THEN value ELSE d[k]]

\* one turn of parse_report's loop over the lines
ParseLine(st, line) ==
    CASE line[1] = "header" ->
            [differences |-> IF st.current # EmptyDict
                             THEN Append(st.differences, st.current)
                             ELSE st.differences,
             current |-> [num |-> line[2], ratio |-> line[3],
                          original |-> <<>>, transcribed |-> <<>>]]
      [] line[1] = "original" ->
            [st EXCEPT !.current = DictPut(st.current, "original", line[2])]
      [] line[1] = "recognized" ->
            [st EXCEPT !.current = DictPut(st.current, "transcribed", line[2])]
      [] OTHER -> st

RECURSIVE ParseLines(_, _)
ParseLines(lines, k) ==
    IF k = 0 THEN [differences |-> <<>>, current |-> EmptyDict]
    ELSE ParseLine(ParseLines(lines, k - 1), lines[k])

\* parse_report: the last record is kept if it has a non-empty original
parse_report(lines) ==
    LET st == ParseLines(lines, Len(lines))
    IN  IF st.current # EmptyDict /\ "original" \in DOMAIN st.current
           /\ st.current["original"] # <<>>
        THEN Append(st.differences, st.current)
        ELSE st.differences

\* the keys filter_meaningful_differences reads from every record
ReadKeys == {"ratio", "original", "transcribed"}

Meaningful(diff) == ~(diff["ratio"] >= 98) /\ ~(diff["ratio"] < 20) /\ ~(Len(diff["original"]) < 3)

\* filter_meaningful_differences: diff['ratio'] of a record without the key
\* raises KeyError
filter_meaningful_differences(diffs) ==
    IF \E i \in 1..Len(diffs) : ~(ReadKeys \subseteq DOMAIN diffs[i])
    THEN <<"KeyError">>
    ELSE SelectSeq(diffs, Meaningful)

ReportInit ==
    /\ ChunkIdle
    /\ DictIdle
    /\ GateIdle
    /\ DiffIdle
    /\ TasksIdle
    /\ PublishIdle
    /\ PipelineIdle
    /\ ContextIdle
    /\ raw_text = <<>>
    /\ report_content \in Reports
    /\ parsed = <<>>
    /\ meaningful = <<>>
    /\ qpc = "report"

\* differences = parse_report(report_content)
ParseReport ==
    /\ qpc = "report"
    /\ parsed' = parse_report(report_content)
    /\ qpc' = "parsed"
    /\ UNCHANGED <<report_content, meaningful>>
    /\ UNCHANGED <<cvars, dvars, gvars, fvars, tvars, pvars, raw_text, lvars, kvars>>

\* meaningful = filter_meaningful_differences(differences)
FilterMeaningful ==
    /\ qpc = "parsed"
    /\ meaningful' = filter_meaningful_differences(parsed)
    /\ qpc' = IF \E i \in 1..Len(parsed) : ~(ReadKeys \subseteq DOMAIN parsed[i])
              THEN "KeyError"
              ELSE "filtered"
    /\ UNCHANGED <<report_content, parsed>>
    /\ UNCHANGED <<cvars, dvars, gvars, fvars, tvars, pvars, raw_text, lvars, kvars>>

ReportNext == ParseReport \/ FilterMeaningful

SpecReport == ReportInit /\ [][ReportNext]_vars

RecordKeys == {"num", "ratio", "original", "transcribed"}

\* C26: every record parse_report returned has the four fields num, ratio,
\* original and transcribed, so that filter_meaningful_differences ends
\* without a KeyError
C26_RecordsHaveFourFields ==
    /\ qpc \in {"parsed", "filtered", "KeyError"} =>
          \A i \in 1..Len(parsed) : DOMAIN parsed[i] = RecordKeys
    /\ qpc # "KeyError"

(***************************************************************************)
(* Properties of a proposal that repeats an entry of the YAML              *)
(***************************************************************************)

\* sync_from_report got proposals and put them through a check
SyncChecked == gpc \in {"sync_written", "sync_nothing_valid"}

\* the proposals whose key is in the YAML as read, with the same reading
IdenticalProposals ==
    {i \in 1..Len(new_data) :
        /\ DictHas(yaml_before, new_data[i][1])
        /\ DictGet(yaml_before, new_data[i][1]) = new_data[i][2]}

InValidated(i) == \E j \in 1..Len(validated) : validated[j] = new_data[i]
InRejected(i) == \E j \in 1..Len(rejected) : rejected[j][1] = new_data[i][1]

\* the entry stands in the YAML where it stood, with the reading it had
EntryKept(i) ==
    \E j \in 1..Len(yaml_before) :
        /\ yaml_before[j] = new_data[i]
        /\ j <= Len(yaml_corr)
        /\ yaml_corr[j] = new_data[i]

C29_NormalizeIdempotent == normalized => Normalize(text) = text

\* a file with carriage returns whose text, as read, had a run of three line
\* feeds inside: the normalization changed it, a second one does not
C29_Witness ==
    /\ normalized
    /\ Holds(raw_text, CR)
    /\ Contains(Strip(ReadText(raw_text)), <<LF, LF, LF>>)
    /\ text # ReadText(raw_text)
    /\ Normalize(text) = text

(***************************************************************************)
(* fix_corrections_from_report.py: find_context_in_text                    *)
(***************************************************************************)

\* context_chars
ContextChars == 100
\* sentence[:20]
FirstPrefixLen == 20
\* range(15, 5, -1)
RetryFrom == 15
RetryDownTo == 6

Min(a, b) == IF a <= b THEN a ELSE b
Max(a, b) == IF a >= b THEN a ELSE b

\* s[:n]
Prefix(s, n) == SubSeq(s, 1, Min(n, Len(s)))

\* s.find(w): the index (from 0) of the first occurrence of w in s, or -1
Find(s, w) ==
    IF Contains(s, w)
    THEN (CHOOSE i \in 1..(Len(s) + 1) :
             StartsAt(s, i, w) /\ \A j \in 1..(i - 1) : ~StartsAt(s, j, w)) - 1
    ELSE -1

\* for length in range(15, 5, -1): the first prefix found ends the loop
RECURSIVE RetryLoop(_, _, _)
RetryLoop(original_text, sentence, length) ==
    IF length < RetryDownTo THEN -1
    ELSE LET pos == Find(original_text, Prefix(sentence, length))
         IN  IF pos # -1 THEN pos ELSE RetryLoop(original_text, sentence, length - 1)

\* pos of find_context_in_text
ContextPos(original_text, sentence) ==
    LET pos == Find(original_text, Prefix(sentence, FirstPrefixLen))
    IN  IF pos = -1 THEN RetryLoop(original_text, sentence, RetryFrom) ELSE pos

\* the window without the length of the sentence
find_context_in_text_SentenceNotCounted(original_text, sentence) ==
    LET pos == ContextPos(original_text, sentence)
    IN  IF pos = -1 THEN sentence
        ELSE SubSeq(original_text, Max(0, pos - ContextChars) + 1,
                    Min(Len(original_text), pos + ContextChars))

find_context_in_text(original_text, sentence) ==
    LET pos == ContextPos(original_text, sentence)
    IN  IF pos = -1 THEN sentence
        ELSE LET start == Max(0, pos - ContextChars)
                 end == Min(Len(original_text), pos + Len(sentence) + ContextChars)
             IN  SubSeq(original_text, start + 1, end)

\* inputs: a run of "a" closed by "c", with "x" before and after it; the
\* sentence is a run of "a" and a tail
PadLens == {0, 3, 100, 104}
BodyRuns == {0, 5, 9, 12, 21, 25}
SentenceRuns == {0, 3, 5, 6, 10, 14, 15, 16, 19, 20, 22}
SentenceTails == {<<>>, <<"c">>, <<"b", "b", "b">>}
ContextTexts ==
    {Rep("x", pre) \o Rep("a", m) \o <<"c">> \o Rep("x", post) :
        pre \in PadLens, m \in BodyRuns, post \in PadLens}
ContextSentences == {Rep("a", n) \o t : n \in SentenceRuns, t \in SentenceTails}

ContextInit ==
    /\ ChunkIdle
    /\ DictIdle
    /\ GateIdle
    /\ DiffIdle
    /\ TasksIdle
    /\ PublishIdle
    /\ PipelineIdle
    /\ ReportIdle
    /\ raw_text = <<>>
    /\ ctx_text \in ContextTexts
    /\ ctx_sentence \in ContextSentences
    /\ context = <<>>
    /\ kpc = "input"

\* context = find_context_in_text(original_text, diff['original'])
FindContext ==
    /\ kpc = "input"
    /\ context' = find_context_in_text(ctx_text, ctx_sentence)
    /\ kpc' = "done"
    /\ UNCHANGED <<ctx_text, ctx_sentence>>
    /\ UNCHANGED <<cvars, dvars, gvars, fvars, tvars, pvars, raw_text, lvars, rvars>>

ContextNext == FindContext

SpecContext == ContextInit /\ [][ContextNext]_vars

\* none of the prefixes the function tries occurs in the source
NoPrefixFound ==
    \A n \in {FirstPrefixLen} \cup RetryDownTo..RetryFrom :
        ~Contains(ctx_text, Prefix(ctx_sentence, n))

\* w stands in s with at most ContextChars characters before and after it
WithinMargins(s, w) ==
    \E i \in 1..(Len(s) + 1) :
        /\ StartsAt(s, i, w)
        /\ i - 1 <= ContextChars
        /\ Len(s) - (i - 1) - Len(w) <= ContextChars

SentenceAtPos ==
    /\ ContextPos(ctx_text, ctx_sentence) # -1
    /\ StartsAt(ctx_text, ContextPos(ctx_text, ctx_sentence) + 1, ctx_sentence)

\* the sentence stands in the result with 100 characters before and after it,
\* fewer only where the source ends
FullMargins ==
    LET pos == ContextPos(ctx_text, ctx_sentence)
    IN  \E i \in 1..(Len(context) + 1) :
            /\ StartsAt(context, i, ctx_sentence)
            /\ i - 1 = Min(ContextChars, pos)
            /\ Len(context) - (i - 1) - Len(ctx_sentence) =
                  Min(ContextChars, Len(ctx_text) - pos - Len(ctx_sentence))

====
